---- MODULE Spec2Model ----
(***************************************************************************)
(* A state-machine model of the dtree measure library                      *)
(* (measure_lib/include/measure/measure_base.h): measure records of the    *)
(* four safety policies, the two scope guards, the measure database and    *)
(* the dynamic measure database, driven by application threads.            *)
(***************************************************************************)
EXTENDS Integers, Sequences, FiniteSets, TLC

(* ------------------------------ bounds -------------------------------- *)
NumThreads == 2      \* application threads
MaxRecords == 4      \* record objects that can exist
SeqTicks == 2        \* one-thread runs: the clock stops advancing here
SeqDepth == 2        \* one-thread runs: live scopes of the thread
SeqScopes == 3       \* one-thread runs: scopes the thread constructs in its life
SeqThrows == 1       \* one-thread runs: exceptions the thread throws in its life
ConcPairs == 2       \* concurrent runs: top-level invocations of each thread
ConcDepth == 2       \* concurrent runs: live scopes of each thread
MaxCalls == 2        \* database runs: calls each thread makes
MaxResets == 1       \* database runs: calls of ResetAll
MaxReports == 1      \* database runs: reports written
MaxTitleLen == 86     \* banner runs: the longest backend title, in characters
SizeBits == 16       \* banner runs: the bits of a size_t (64 in the build; the wrap is alike)
MaxSmallNum == 1100  \* formatting runs: every total up to this one is printed
MaxDigits == 8       \* formatting runs: and the powers of ten up to this exponent

Threads == 1..NumThreads
Pair == {1, 2}       \* the two threads of the runs that nest scopes or share a database
RecIds == 1..MaxRecords
NoThread == 0        \* an unlocked std::mutex
Null == 0            \* nullptr
NoUnwind == -1       \* no exception is propagating
Uninit == -1         \* a TimePoint member that no constructor has set
Absent == -1         \* std::map::end(): the map holds no entry for the key
DivByZero == -1      \* the value of a division whose divisor is 0
Width == 86          \* PrintReport: constexpr size_t width = 86
CppTitleLen == 9     \* strlen(CppBackend::GetMeasureTitle()), "cpp times"
Policies == {"Base", "TSafe", "RSafe", "TRSafe"}
DynPolicies == {"Base", "TSafe"}   \* the dynamic databases the runs use
Names == {"X", "Y"}                \* the record names the runs use

VARIABLES
    clock,           \* the backend's tick source
    name,            \* TMeasureRecord::name, per record ("" = not constructed)
    policy,          \* the record's type: Base, TSafe, RSafe, TRSafe or None
    totalTime,       \* TMeasureRecord::totalTime
    numCall,         \* TMeasureRecord::numCall
    depth,           \* MeasureRecordRSafe::depth
    mutex,           \* MeassureRecordTSafe::mutex, the holding thread
    depths,          \* MeasureRecordTRSafe::Depth()'s thread_local map, per thread
    records,         \* MeasureDatabase::records
    dbMutex,         \* MeasureDatabase::mutex
    dynamicRecords,  \* DynamicMeasureDatabase::dynamicRecords, per record type
    dynMutex,        \* DynamicMeasureDatabase::mutex, per record type
    owner,           \* where a record lives: "static", "dynamic" or "none"
    pc,              \* each thread's position
    scopes,          \* each thread's stack of live scope objects
    local,           \* each thread's locals of the call it is in
    unwindTo,        \* stack height of the handler an exception unwinds to
    bound,           \* the bounds of the run: ticks, depth, scopes, throws
    opened,          \* history: scopes constructed per thread and record
    thrown,          \* history: the thread's last throw
    pairCount,       \* history: completed scope lifetimes per thread and record
    pairSum,         \* history: sum of their elapsed ticks per record
    topCount,        \* history: completed outermost scopes per thread and record
    topSum,          \* history: sum of their elapsed ticks per record
    returned,        \* history: what GetOrAddDynamicRecord has returned
    calls,           \* history: database calls made by the thread
    snap,            \* history: the database when the last ResetAll began
    log,             \* history: constructions, lock acquisitions, elapsed ticks
    report           \* the rows the last report has written

recVars == <<name, policy, totalTime, numCall, depth, mutex, depths>>
dbVars == <<records, dbMutex, bound, dynamicRecords, dynMutex, owner>>
dynHist == <<returned, calls, snap, log, report>>
histVars == <<opened, thrown, pairCount, pairSum, topCount, topSum, dynHist>>
vars == <<clock, name, policy, totalTime, numCall, depth, mutex, depths,
          records, dbMutex, bound, dynamicRecords, dynMutex, owner,
          pc, scopes, local, unwindTo,
          opened, thrown, pairCount, pairSum, topCount, topSum,
          returned, calls, snap, log, report>>

(* ------------------------------ helpers ------------------------------- *)
IsThreadSafe(p) == p \in {"TSafe", "TRSafe"}
IsRecursionSafe(p) == p \in {"RSafe", "TRSafe"}
IsPlain(p) == p \in {"Base", "TSafe"}

NoLocal == [rec |-> Null, start |-> 0, tmp |-> 0, now |-> 0,
            stopped |-> FALSE, calls |-> 0,
            pol |-> "None", arg |-> "", ret |-> Null, cont |-> "run",
            fresh |-> FALSE, idx |-> 0, end |-> 0, stale |-> FALSE]
NoSnap == [n |-> 0, records |-> <<>>, found |-> <<>>, calls |-> <<>>, total |-> <<>>,
           done |-> FALSE, depth |-> <<>>, tops |-> <<>>, sums |-> <<>>]
NoThrow == [n |-> 0, calls |-> <<>>, recs |-> <<>>]
NoLog == [made |-> <<>>, locked |-> <<>>, elapsed |-> [r \in RecIds |-> <<>>]]
NoReport == [n |-> 0, kind |-> "none", rows |-> <<>>, done |-> FALSE]

RECURSIVE SumTo(_, _)
SumTo(f, n) == IF n = 0 THEN 0 ELSE f[n] + SumTo(f, n - 1)

Front(s) == SubSeq(s, 1, Len(s) - 1)
Top(s) == s[Len(s)]

\* std::map::operator[]: a missing key reads as a value-initialised int32_t
MapGet(m, k) == IF k \in DOMAIN m THEN m[k] ELSE 0
MapPut(m, k, v) == [x \in DOMAIN m \cup {k} |-> IF x = k THEN v ELSE m[x]]

(* --------------------------- clock backend ---------------------------- *)
GetTick == clock

Tick ==
    /\ clock < bound.ticks
    /\ clock' = clock + 1
    /\ UNCHANGED <<recVars, dbVars, pc, scopes, local, unwindTo, histVars>>

(* --------------------------- TMeasureRecord --------------------------- *)
\* a Now() that reads the clock at half its resolution
NowCoarse == GetTick \div 2

\* TMeasureRecord::Now: MeasureBackend::GetTick()
Now == GetTick

\* totalTime = GetTick() - start: the last difference replaces the sum
AddElapsedOverwrite(total, now, start) == now - start

\* totalTime += start - GetTick(): the difference is taken the wrong way round
AddElapsedReversed(total, now, start) == total + (start - now)

\* totalTime += GetTick() - start
AddElapsed(total, now, start) == total + (now - start)

\* numCall += 2
AddCallTwice(n) == n + 2

\* numCall++
AddCall(n) == n + 1

\* a start member that was never assigned holds any value
StartValues(s) == IF s = Uninit THEN 0..bound.ticks ELSE {s}

(* ------------------- MeasureRecordRSafe / TRSafe ---------------------- *)
\* depth + 1 == 1 in place of ++depth == 1: the increment is not stored
IncrementDepthNotStored(d) == [depth |-> d, ret |-> (d + 1 = 1)]

\* an IncrementDepth that returns true on every frame
IncrementDepthEveryFrame(d) == [depth |-> d + 1, ret |-> TRUE]

\* return ++depth == 1
IncrementDepth(d) == [depth |-> d + 1, ret |-> (d + 1 = 1)]

\* every frame's destructor stops the timer
DecrementDepthEveryFrame(d) == [depth |-> d - 1, ret |-> TRUE]

\* depth - 1 == 0 in place of --depth == 0: the decrement is not stored
DecrementDepthNotStored(d) == [depth |-> d, ret |-> (d - 1 = 0)]

DecrementDepth(d) == [depth |-> d - 1, ret |-> (d - 1 = 0)]

\* a key without the record: one counter per thread for all its records
DepthKeyThreadOnly(t, r) == <<t, Null>>

\* the key of MeasureRecordTRSafe::Depth()
DepthKey(t, r) == <<t, r>>

\* the depth thread t sees for record r
DepthOf(t, r) ==
    IF policy[r] = "TRSafe" THEN MapGet(depths[t], DepthKey(t, r)) ELSE depth[r]

(* ------------------------------ scopes -------------------------------- *)
Unwinding(t) == unwindTo[t] # NoUnwind

\* the scopes of thread t on record r
Live(t, r) == {i \in 1..Len(scopes[t]) : scopes[t][i].rec = r}

CanConstruct(t, r) ==
    /\ pc[t] = "run"
    /\ ~Unwinding(t)
    /\ policy[r] # "None"
    /\ Len(scopes[t]) < bound.depth
    /\ SumTo(opened[t], MaxRecords) < bound.scopes

CanDestroy(t) ==
    /\ pc[t] = "run"
    /\ Len(scopes[t]) > 0
    /\ (Unwinding(t) => Len(scopes[t]) > unwindTo[t])

\* the end of a scope's destructor: the object leaves the stack
ScopeDone(t, stopped, now) ==
    LET s == Top(scopes[t])
        r == s.rec
        rest == Front(scopes[t])
        dtick == IF stopped THEN now ELSE clock
        born == IF s.born = Uninit THEN clock ELSE s.born
        outer == \A i \in 1..Len(rest) : rest[i].rec # r
    IN  /\ scopes' = [scopes EXCEPT ![t] = rest]
        /\ pc' = [pc EXCEPT ![t] = "run"]
        /\ local' = [local EXCEPT ![t] = NoLocal]
        /\ unwindTo' = [unwindTo EXCEPT ![t] =
                IF Unwinding(t) /\ Len(rest) = unwindTo[t] THEN NoUnwind ELSE @]
        /\ pairCount' = [pairCount EXCEPT ![t][r] = @ + 1]
        /\ pairSum' = [pairSum EXCEPT ![r] = @ + (dtick - born)]
        /\ topCount' = [topCount EXCEPT ![t][r] = IF outer THEN @ + 1 ELSE @]
        /\ topSum' = [topSum EXCEPT ![r] = IF outer THEN @ + (dtick - born) ELSE @]
        /\ log' = [log EXCEPT !.elapsed[r] =
                IF stopped
                THEN MapPut(@, now - local[t].start, MapGet(@, now - local[t].start) + 1)
                ELSE @]
        /\ UNCHANGED <<opened, thrown, returned, calls, snap, report>>

\* TMeasureScope(record_): record{record_}, start{record->Now()}
TMeasureScopeCtor(t, r) ==
    /\ CanConstruct(t, r)
    /\ IsPlain(policy[r])
    /\ scopes' = [scopes EXCEPT ![t] =
            Append(@, [rec |-> r, start |-> Now, born |-> clock])]
    /\ opened' = [opened EXCEPT ![t][r] = @ + 1]
    /\ UNCHANGED <<clock, recVars, dbVars, pc, local, unwindTo,
                   thrown, pairCount, pairSum, topCount, topSum, dynHist>>

\* a guard that stops the timer on the normal exit path only
TMeasureScopeDtorNormalOnly(t) ==
    /\ CanDestroy(t)
    /\ LET s == Top(scopes[t]) IN
        /\ IsPlain(policy[s.rec])
        /\ IF Unwinding(t)
           THEN ScopeDone(t, FALSE, 0)
           ELSE /\ local' = [local EXCEPT ![t] =
                        [NoLocal EXCEPT !.rec = s.rec, !.start = s.start,
                                        !.calls = numCall[s.rec]]]
                /\ pc' = [pc EXCEPT ![t] =
                        IF IsThreadSafe(policy[s.rec]) THEN "stop_lock" ELSE "stop_load"]
                /\ UNCHANGED <<scopes, unwindTo, histVars>>
    /\ UNCHANGED <<clock, recVars, dbVars>>

\* ~TMeasureScope(): record->StopMeasure(start)
TMeasureScopeDtor(t) ==
    /\ CanDestroy(t)
    /\ LET s == Top(scopes[t]) IN
        /\ IsPlain(policy[s.rec])
        /\ local' = [local EXCEPT ![t] =
                [NoLocal EXCEPT !.rec = s.rec, !.start = s.start,
                                !.calls = numCall[s.rec]]]
        /\ pc' = [pc EXCEPT ![t] =
                IF IsThreadSafe(policy[s.rec]) THEN "stop_lock" ELSE "stop_load"]
    /\ UNCHANGED <<clock, recVars, dbVars, scopes, unwindTo, histVars>>

\* StopMeasure without the lock_guard: the thread goes on without the mutex
StopMeasureLockMissing(t) ==
    /\ pc[t] = "stop_lock"
    /\ pc' = [pc EXCEPT ![t] = "stop_load"]
    /\ UNCHANGED <<clock, recVars, dbVars, scopes, local, unwindTo, histVars>>

\* MeassureRecordTSafe::StopMeasure: lock_guard lock(mutex)
StopMeasureLock(t) ==
    /\ pc[t] = "stop_lock"
    /\ mutex[local[t].rec] = NoThread
    /\ mutex' = [mutex EXCEPT ![local[t].rec] = t]
    /\ pc' = [pc EXCEPT ![t] = "stop_load"]
    /\ UNCHANGED <<clock, name, policy, totalTime, numCall, depth, depths,
                   dbVars, scopes, local, unwindTo, histVars>>

\* TMeasureRecord::StopMeasure, totalTime += GetTick() - start: the read
StopMeasureLoadTotal(t) ==
    /\ pc[t] = "stop_load"
    /\ \E s \in StartValues(local[t].start) :
        local' = [local EXCEPT ![t].tmp =
                        AddElapsed(totalTime[local[t].rec], GetTick, s),
                     ![t].now = GetTick, ![t].start = s, ![t].stopped = TRUE]
    /\ pc' = [pc EXCEPT ![t] = "stop_store"]
    /\ UNCHANGED <<clock, recVars, dbVars, scopes, unwindTo, histVars>>

\* totalTime += GetTick() - start: the write
StopMeasureStoreTotal(t) ==
    /\ pc[t] = "stop_store"
    /\ totalTime' = [totalTime EXCEPT ![local[t].rec] = local[t].tmp]
    /\ pc' = [pc EXCEPT ![t] = "call_load"]
    /\ UNCHANGED <<clock, name, policy, numCall, depth, mutex, depths,
                   dbVars, scopes, local, unwindTo, histVars>>

\* numCall++: the read
StopMeasureLoadCall(t) ==
    /\ pc[t] = "call_load"
    /\ local' = [local EXCEPT ![t].tmp = AddCall(numCall[local[t].rec])]
    /\ pc' = [pc EXCEPT ![t] = "call_store"]
    /\ UNCHANGED <<clock, recVars, dbVars, scopes, unwindTo, histVars>>

\* numCall++: the write; a record without a mutex returns to the destructor
StopMeasureStoreCall(t) ==
    /\ pc[t] = "call_store"
    /\ numCall' = [numCall EXCEPT ![local[t].rec] = local[t].tmp]
    /\ IF IsThreadSafe(policy[local[t].rec])
       THEN /\ pc' = [pc EXCEPT ![t] = "stop_unlock"]
            /\ UNCHANGED <<scopes, local, unwindTo, histVars>>
       ELSE ScopeDone(t, TRUE, local[t].now)
    /\ UNCHANGED <<clock, name, policy, totalTime, depth, mutex, depths, dbVars>>

\* a StopMeasure that returns with the record's mutex still locked
StopMeasureUnlockMissing(t) ==
    /\ pc[t] = "stop_unlock"
    /\ ScopeDone(t, TRUE, local[t].now)
    /\ UNCHANGED <<clock, recVars, dbVars>>

\* MeassureRecordTSafe::StopMeasure returns: the lock_guard unlocks
StopMeasureUnlock(t) ==
    /\ pc[t] = "stop_unlock"
    /\ mutex' = [mutex EXCEPT ![local[t].rec] = NoThread]
    /\ ScopeDone(t, TRUE, local[t].now)
    /\ UNCHANGED <<clock, name, policy, totalTime, numCall, depth, depths, dbVars>>

\* MeasureScopeRSafe(record_): if (record->IncrementDepth()) start = record->Now();
\* a TRSafe record's IncrementDepth first takes the record's mutex
MeasureScopeRSafeCtor(t, r) ==
    /\ CanConstruct(t, r)
    /\ IsRecursionSafe(policy[r])
    /\ opened' = [opened EXCEPT ![t][r] = @ + 1]
    /\ IF policy[r] = "RSafe"
       THEN LET inc == IncrementDepth(depth[r]) IN
            /\ depth' = [depth EXCEPT ![r] = inc.depth]
            /\ scopes' = [scopes EXCEPT ![t] = Append(@,
                    [rec |-> r, start |-> Uninit,
                     born |-> IF inc.ret THEN Uninit ELSE clock])]
            /\ pc' = [pc EXCEPT ![t] = IF inc.ret THEN "ctor_now" ELSE "run"]
            /\ UNCHANGED mutex
       ELSE /\ mutex[r] = NoThread
            /\ mutex' = [mutex EXCEPT ![r] = t]
            /\ scopes' = [scopes EXCEPT ![t] = Append(@,
                    [rec |-> r, start |-> Uninit, born |-> Uninit])]
            /\ pc' = [pc EXCEPT ![t] = "inc_body"]
            /\ UNCHANGED depth
    /\ UNCHANGED <<clock, name, policy, totalTime, numCall, depths, dbVars,
                   local, unwindTo, thrown, pairCount, pairSum, topCount, topSum, dynHist>>

\* MeasureRecordTRSafe::IncrementDepth: return ++Depth() == 1; the lock_guard unlocks
IncrementDepthTRSafe(t) ==
    /\ pc[t] = "inc_body"
    /\ LET r == Top(scopes[t]).rec
           k == DepthKey(t, r)
           inc == IncrementDepth(MapGet(depths[t], k))
       IN  /\ depths' = [depths EXCEPT ![t] = MapPut(@, k, inc.depth)]
           /\ mutex' = [mutex EXCEPT ![r] = NoThread]
           /\ pc' = [pc EXCEPT ![t] = IF inc.ret THEN "ctor_now" ELSE "run"]
           /\ scopes' = [scopes EXCEPT ![t][Len(scopes[t])].born =
                    IF inc.ret THEN Uninit ELSE clock]
    /\ UNCHANGED <<clock, name, policy, totalTime, numCall, depth, dbVars,
                   local, unwindTo, histVars>>

\* a constructor that reads the clock and leaves the start member unset
MeasureScopeRSafeNowDiscarded(t) ==
    /\ pc[t] = "ctor_now"
    /\ scopes' = [scopes EXCEPT ![t][Len(scopes[t])].born = clock]
    /\ pc' = [pc EXCEPT ![t] = "run"]
    /\ UNCHANGED <<clock, recVars, dbVars, local, unwindTo, histVars>>

\* MeasureScopeRSafe(record_): start = record->Now()
MeasureScopeRSafeNow(t) ==
    /\ pc[t] = "ctor_now"
    /\ scopes' = [scopes EXCEPT ![t][Len(scopes[t])].start = Now, ![t][Len(scopes[t])].born = clock]
    /\ pc' = [pc EXCEPT ![t] = "run"]
    /\ UNCHANGED <<clock, recVars, dbVars, local, unwindTo, histVars>>

\* ~MeasureScopeRSafe(): if (record->DecrementDepth()) record->StopMeasure(start);
\* a TRSafe record's DecrementDepth first takes the record's mutex
MeasureScopeRSafeDtor(t) ==
    /\ CanDestroy(t)
    /\ LET s == Top(scopes[t])
           r == s.rec
           loc == [NoLocal EXCEPT !.rec = r, !.start = s.start, !.calls = numCall[r]]
       IN  /\ IsRecursionSafe(policy[r])
           /\ IF policy[r] = "RSafe"
              THEN LET dec == DecrementDepth(depth[r]) IN
                   /\ depth' = [depth EXCEPT ![r] = dec.depth]
                   /\ UNCHANGED mutex
                   /\ IF dec.ret
                      THEN /\ pc' = [pc EXCEPT ![t] = "stop_load"]
                           /\ local' = [local EXCEPT ![t] = loc]
                           /\ UNCHANGED <<scopes, unwindTo, histVars>>
                      ELSE ScopeDone(t, FALSE, 0)
              ELSE /\ mutex[r] = NoThread
                   /\ mutex' = [mutex EXCEPT ![r] = t]
                   /\ pc' = [pc EXCEPT ![t] = "dec_body"]
                   /\ local' = [local EXCEPT ![t] = loc]
                   /\ UNCHANGED <<depth, scopes, unwindTo, histVars>>
    /\ UNCHANGED <<clock, name, policy, totalTime, numCall, depths, dbVars>>

\* a DecrementDepth whose lock is still held when the destructor goes on
DecrementDepthTRSafeKeepsLock(t) ==
    /\ pc[t] = "dec_body"
    /\ LET r == local[t].rec
           k == DepthKey(t, r)
           dec == DecrementDepth(MapGet(depths[t], k))
       IN  /\ depths' = [depths EXCEPT ![t] = MapPut(@, k, dec.depth)]
           /\ UNCHANGED mutex
           /\ IF dec.ret
              THEN /\ pc' = [pc EXCEPT ![t] = "stop_lock"]
                   /\ UNCHANGED <<scopes, local, unwindTo, histVars>>
              ELSE ScopeDone(t, FALSE, 0)
    /\ UNCHANGED <<clock, name, policy, totalTime, numCall, depth, dbVars>>

\* MeasureRecordTRSafe::DecrementDepth: return --Depth() == 0; the lock_guard unlocks
DecrementDepthTRSafe(t) ==
    /\ pc[t] = "dec_body"
    /\ LET r == local[t].rec
           k == DepthKey(t, r)
           dec == DecrementDepth(MapGet(depths[t], k))
       IN  /\ depths' = [depths EXCEPT ![t] = MapPut(@, k, dec.depth)]
           /\ mutex' = [mutex EXCEPT ![r] = NoThread]
           /\ IF dec.ret
              THEN /\ pc' = [pc EXCEPT ![t] = "stop_lock"]
                   /\ UNCHANGED <<scopes, local, unwindTo, histVars>>
              ELSE ScopeDone(t, FALSE, 0)
    /\ UNCHANGED <<clock, name, policy, totalTime, numCall, depth, dbVars>>

\* an exception leaves the measured region: the scopes above the handler's
\* frame are destroyed, innermost first
Throw(t) ==
    /\ pc[t] = "run"
    /\ ~Unwinding(t)
    /\ Len(scopes[t]) > 0
    /\ thrown[t].n < bound.throws
    /\ \E k \in 0..(Len(scopes[t]) - 1) :
        unwindTo' = [unwindTo EXCEPT ![t] = k]
    /\ thrown' = [thrown EXCEPT ![t] =
            [n |-> @.n + 1, calls |-> numCall,
             recs |-> [i \in 1..Len(scopes[t]) |-> scopes[t][i].rec]]]
    /\ UNCHANGED <<clock, recVars, dbVars, pc, scopes, local,
                   opened, pairCount, pairSum, topCount, topSum, dynHist>>

(* -------------------------- MeasureDatabase --------------------------- *)
\* the storage the next record object gets
FreeIds == {r \in RecIds : policy[r] = "None"}
NewId == CHOOSE r \in FreeIds : \A q \in FreeIds : r <= q

\* a thread is between calls and every call in flight can still get a record
CanCall(t) ==
    /\ pc[t] = "run"
    /\ calls[t] < MaxCalls
    /\ Cardinality(FreeIds) > Cardinality({u \in Threads : pc[u] # "run"})

\* the default of TMeasureRecord's autoRegister parameter, switched off
DefaultAutoRegisterOff == FALSE

\* TMeasureRecord(const char* name, const bool autoRegister = true)
DefaultAutoRegister == TRUE

\* TMeasureRecord(name, autoRegister): name(name), totalTime(0), numCall(0)
TMeasureRecordCtor(r, nm, pol, own) ==
    /\ name' = [name EXCEPT ![r] = nm]
    /\ policy' = [policy EXCEPT ![r] = pol]
    /\ totalTime' = [totalTime EXCEPT ![r] = 0]
    /\ numCall' = [numCall EXCEPT ![r] = 0]
    /\ owner' = [owner EXCEPT ![r] = own]

\* if (!autoRegister): the test is inverted
RegistersInverted(pol, autoRegister) == ~autoRegister

\* a constructor that registers whatever autoRegister says
RegistersAlways(pol, autoRegister) == TRUE

\* only TMeasureRecord's own constructor registers: the constructors of the
\* policies' record types do not pass autoRegister on
RegistersBaseOnly(pol, autoRegister) == autoRegister /\ pol = "Base"

\* if (autoRegister): the constructors of the four policies' record types are
\* TMeasureRecord's (using MeasureRecord::MeasureRecord)
Registers(pol, autoRegister) == autoRegister

\* TMeasureRecord::Database, the database a record of policy pol registers
\* into: MeasureDatabase<TMeasureRecord<MeasureBackend>>, whatever the policy
RecordDatabase(pol) == records

\* static Policy::MeasureRecord record(name, autoRegister);
\* if (autoRegister) Database::AddRecord(this)
ConstructStatic(t, pol, nm, autoRegister) ==
    /\ CanCall(t)
    /\ TMeasureRecordCtor(NewId, nm, pol, "static")
    /\ calls' = [calls EXCEPT ![t] = @ + 1]
    /\ log' = [log EXCEPT !.made = Append(@, <<t, NewId, autoRegister>>)]
    /\ IF Registers(pol, autoRegister)
       THEN /\ pc' = [pc EXCEPT ![t] = "add_lock"]
            /\ local' = [local EXCEPT ![t] = [NoLocal EXCEPT !.ret = NewId]]
       ELSE UNCHANGED <<pc, local>>
    /\ UNCHANGED <<clock, depth, mutex, depths, records, dbMutex, bound,
                   dynamicRecords, dynMutex, scopes, unwindTo,
                   opened, thrown, pairCount, pairSum, topCount, topSum,
                   returned, snap, report>>

\* thread u is in a range-for over Instance()->records that holds no lock
Iterating(u) == pc[u] \in {"reset_loop", "reset_total", "print_loop"}

\* thread u is in the range-for of FindMeasureRecord
Scanning(u) == pc[u] = "find_loop"

\* what *it yields at the loop's position: the element, or, once a push_back
\* of another thread has run during the loop (the iterators may dangle),
\* a pointer to any record object
Element(t) ==
    IF local[t].stale THEN {r \in RecIds : policy[r] # "None"}
    ELSE {records[local[t].idx]}

\* MeasureDatabase::AddRecord: lock_guard lock(Instance()->mutex)
AddRecordLock(t) ==
    /\ pc[t] = "add_lock"
    /\ dbMutex = NoThread
    /\ dbMutex' = t
    /\ pc' = [pc EXCEPT ![t] = "add_push"]
    /\ log' = [log EXCEPT !.locked = Append(@, local[t].ret)]
    /\ UNCHANGED <<clock, recVars, records, bound, dynamicRecords, dynMutex, owner,
                   scopes, local, unwindTo,
                   opened, thrown, pairCount, pairSum, topCount, topSum,
                   returned, calls, snap, report>>

\* an AddRecord that inserts at the front of the sequence
AddRecordPushFront(t) ==
    /\ pc[t] = "add_push"
    /\ records' = <<local[t].ret>> \o records
    /\ dbMutex' = NoThread
    /\ pc' = [pc EXCEPT ![t] = local[t].cont]
    /\ local' = [local EXCEPT ![t] = IF local[t].cont = "run" THEN NoLocal ELSE @]
    /\ UNCHANGED <<clock, recVars, bound, dynamicRecords, dynMutex, owner,
                   scopes, unwindTo, histVars>>

\* MeasureDatabase::AddRecord: records.push_back(record); the lock_guard unlocks
AddRecordPush(t) ==
    /\ pc[t] = "add_push"
    /\ records' = Append(records, local[t].ret)
    /\ dbMutex' = NoThread
    /\ pc' = [pc EXCEPT ![t] = local[t].cont]
    /\ local' = [u \in Threads |->
            IF u = t THEN (IF local[t].cont = "run" THEN NoLocal ELSE local[t])
            ELSE IF Iterating(u) \/ Scanning(u) THEN [local[u] EXCEPT !.stale = TRUE]
            ELSE local[u]]
    /\ UNCHANGED <<clock, recVars, bound, dynamicRecords, dynMutex, owner,
                   scopes, unwindTo, histVars>>

\* a scan that keeps going after a match: the last record named nm wins
FindFromLast(nm, i) ==
    LET hits == {j \in i..Len(records) : name[records[j]] = nm}
    IN  IF hits = {} THEN Null
        ELSE records[CHOOSE j \in hits : \A k \in hits : k <= j]

\* MeasureDatabase::FindMeasureRecord: the first record of the sequence, from
\* position i on, whose name is nm; nullptr when there is none
RECURSIVE FindFrom(_, _)
FindFrom(nm, i) ==
    IF i > Len(records) THEN Null
    ELSE IF name[records[i]] = nm THEN records[i]
    ELSE FindFrom(nm, i + 1)

FindMeasureRecord(nm) == FindFrom(nm, 1)

\* a thread calls Database::FindMeasureRecord(nm); the result is in its locals
FindMeasureRecordCall(t, nm) ==
    /\ pc[t] = "run"
    /\ ~Unwinding(t)
    /\ pc' = [pc EXCEPT ![t] = "find_ret"]
    /\ local' = [local EXCEPT ![t] =
            [NoLocal EXCEPT !.arg = nm, !.ret = FindMeasureRecord(nm)]]
    /\ UNCHANGED <<clock, recVars, dbVars, scopes, unwindTo, histVars>>

\* the caller has looked at the result
FindMeasureRecordReturn(t) ==
    /\ pc[t] = "find_ret"
    /\ pc' = [pc EXCEPT ![t] = "run"]
    /\ local' = [local EXCEPT ![t] = NoLocal]
    /\ UNCHANGED <<clock, recVars, dbVars, scopes, unwindTo, histVars>>

\* a lookup that takes the database's mutex before it scans
FindMeasureRecordBeginLocked(t, nm) ==
    /\ pc[t] = "run"
    /\ ~Unwinding(t)
    /\ dbMutex = NoThread
    /\ dbMutex' = t
    /\ pc' = [pc EXCEPT ![t] = "find_loop"]
    /\ local' = [local EXCEPT ![t] =
            [NoLocal EXCEPT !.arg = nm, !.idx = 1, !.end = Len(records)]]
    /\ UNCHANGED <<clock, recVars, records, bound, dynamicRecords, dynMutex, owner,
                   scopes, unwindTo, histVars>>

\* FindMeasureRecord, step by step: for (MeasureRecord* mr : Instance()->records)
\* starts at begin() and ends at end(); no lock is taken
FindMeasureRecordBegin(t, nm) ==
    /\ pc[t] = "run"
    /\ ~Unwinding(t)
    /\ pc' = [pc EXCEPT ![t] = "find_loop"]
    /\ local' = [local EXCEPT ![t] =
            [NoLocal EXCEPT !.arg = nm, !.idx = 1, !.end = Len(records)]]
    /\ UNCHANGED <<clock, recVars, dbVars, scopes, unwindTo, histVars>>

\* if (mr->name == name) return mr; after the loop, return nullptr
FindMeasureRecordStep(t) ==
    /\ pc[t] = "find_loop"
    /\ IF local[t].idx > local[t].end
       THEN /\ local' = [local EXCEPT ![t].ret = Null]
            /\ pc' = [pc EXCEPT ![t] = "find_ret"]
       ELSE \E mr \in Element(t) :
                IF name[mr] = local[t].arg
                THEN /\ local' = [local EXCEPT ![t].ret = mr]
                     /\ pc' = [pc EXCEPT ![t] = "find_ret"]
                ELSE /\ local' = [local EXCEPT ![t].idx = @ + 1]
                     /\ UNCHANGED pc
    /\ UNCHANGED <<clock, recVars, dbVars, scopes, unwindTo, histVars>>

\* how often record r is in the database's sequence
Registered(r) == Cardinality({i \in 1..Len(records) : records[i] = r})

\* what the history keeps of the recursion-aware records when ResetAll begins
AtReset(t, f) == [r \in RecIds |-> IF IsRecursionSafe(policy[r]) THEN f[r] ELSE 0]

\* MeasureDatabase::ResetAll: for (MeasureRecord* mr : Instance()->records)
ResetAll(t) ==
    /\ pc[t] = "run"
    /\ ~Unwinding(t)
    /\ snap.n < MaxResets
    /\ pc' = [pc EXCEPT ![t] = "reset_loop"]
    /\ local' = [local EXCEPT ![t] = [NoLocal EXCEPT !.idx = 1, !.end = Len(records)]]
    /\ snap' = [n |-> snap.n + 1, records |-> records,
                found |-> [nm \in Names |-> FindMeasureRecord(nm)],
                calls |-> numCall, total |-> totalTime, done |-> FALSE,
                depth |-> AtReset(t, [r \in RecIds |-> DepthOf(t, r)]),
                tops |-> AtReset(t, topCount[t]), sums |-> AtReset(t, topSum)]
    /\ UNCHANGED <<clock, recVars, dbVars, scopes, unwindTo,
                   opened, thrown, pairCount, pairSum, topCount, topSum,
                   returned, calls, log, report>>

\* ResetAll: mr->numCall = 0
ResetAllZeroCall(t) ==
    /\ pc[t] = "reset_loop"
    /\ local[t].idx <= local[t].end
    /\ \E mr \in Element(t) :
            /\ numCall' = [numCall EXCEPT ![mr] = 0]
            /\ local' = [local EXCEPT ![t].rec = mr]
    /\ pc' = [pc EXCEPT ![t] = "reset_total"]
    /\ UNCHANGED <<clock, name, policy, totalTime, depth, mutex, depths, dbVars,
                   scopes, unwindTo, histVars>>

\* a ResetAll that also zeroes the record's depth
ResetAllZeroTotalAndDepth(t) ==
    /\ pc[t] = "reset_total"
    /\ totalTime' = [totalTime EXCEPT ![local[t].rec] = 0]
    /\ depth' = [depth EXCEPT ![local[t].rec] = 0]
    /\ local' = [local EXCEPT ![t].idx = @ + 1, ![t].rec = Null]
    /\ pc' = [pc EXCEPT ![t] = "reset_loop"]
    /\ UNCHANGED <<clock, name, policy, numCall, mutex, depths, dbVars,
                   scopes, unwindTo, histVars>>

\* ResetAll: mr->totalTime = {}; the loop goes on to the next record
ResetAllZeroTotal(t) ==
    /\ pc[t] = "reset_total"
    /\ totalTime' = [totalTime EXCEPT ![local[t].rec] = 0]
    /\ local' = [local EXCEPT ![t].idx = @ + 1, ![t].rec = Null]
    /\ pc' = [pc EXCEPT ![t] = "reset_loop"]
    /\ UNCHANGED <<clock, name, policy, numCall, depth, mutex, depths, dbVars,
                   scopes, unwindTo, histVars>>

\* a ResetAll that empties the sequence when it is done
ResetAllReturnClears(t) ==
    /\ pc[t] = "reset_loop"
    /\ local[t].idx > local[t].end
    /\ records' = <<>>
    /\ pc' = [pc EXCEPT ![t] = "run"]
    /\ local' = [local EXCEPT ![t] = NoLocal]
    /\ snap' = [snap EXCEPT !.done = TRUE]
    /\ UNCHANGED <<clock, recVars, dbMutex, bound, dynamicRecords, dynMutex, owner,
                   scopes, unwindTo,
                   opened, thrown, pairCount, pairSum, topCount, topSum,
                   returned, calls, log, report>>

\* ResetAll: the loop has visited every record; the call returns
ResetAllReturn(t) ==
    /\ pc[t] = "reset_loop"
    /\ local[t].idx > local[t].end
    /\ pc' = [pc EXCEPT ![t] = "run"]
    /\ local' = [local EXCEPT ![t] = NoLocal]
    /\ snap' = [snap EXCEPT !.done = TRUE]
    /\ UNCHANGED <<clock, recVars, dbVars, scopes, unwindTo,
                   opened, thrown, pairCount, pairSum, topCount, topSum,
                   returned, calls, log, report>>

(* ------------------------------ reports ------------------------------- *)
\* CppBackend::TimeDiffToSec: the ticks are nanoseconds; seconds are kept
\* exactly, in units of 1e-9 s
TimeDiffToSec(time) == time

\* TMeasureRecord::GetTotalSec
GetTotalSec(r) == TimeDiffToSec(totalTime[r])

\* a / b, with the divisor checked
Quotient(a, b) == IF b = 0 THEN DivByZero ELSE a \div b

\* MeasureUtils::TimeToStrNs: uint64_t(sec * 1e9)
TimeToStrNs(sec) == sec

\* a test that looks at the total only
NoDataTotalOnly(r) == GetTotalSec(r) < 0

\* the rows without time columns: totalSec < 0 || measureRecord->numCall == 0
NoData(r) == GetTotalSec(r) < 0 \/ numCall[r] = 0

\* the default argument of FormatWithSeparator: char separator = '\''
Separator == "'"

\* the characters of the decimal digits 0 to 9
DigitChars == <<"0", "1", "2", "3", "4", "5", "6", "7", "8", "9">>

\* std::to_string(num): the decimal digits, most significant first
RECURSIVE to_string(_)
to_string(num) ==
    IF num < 10 THEN <<DigitChars[num + 1]>>
    ELSE Append(to_string(num \div 10), DigitChars[(num % 10) + 1])

\* s.insert(n, 1, c): c goes in front of the character at index n, counted from 0
Insert(s, n, c) == SubSeq(s, 1, n) \o <<c>> \o SubSeq(s, n + 1, Len(s))

\* while (n >= 0): a separator is also put in front of the first digit
RECURSIVE InsertLoopInclusive(_, _, _)
InsertLoopInclusive(s, n, separator) ==
    IF n >= 0 THEN InsertLoopInclusive(Insert(s, n, separator), n - 3, separator) ELSE s

\* while (n > 0) { s.insert(n, 1, separator); n -= 3; }
RECURSIVE InsertLoop(_, _, _)
InsertLoop(s, n, separator) ==
    IF n > 0 THEN InsertLoop(Insert(s, n, separator), n - 3, separator) ELSE s

\* MeasureUtils::FormatWithSeparator: s = std::to_string(num);
\* n = int(s.length()) - 3; the loop; return s
FormatWithSeparator(num, separator) ==
    InsertLoop(to_string(num), Len(to_string(num)) - 3, separator)

\* the text of a time column; uint64_t(x) of a negative or infinite double is
\* undefined and PrintReport's test keeps such values from the columns
TimeText(ns) == IF ns < 0 THEN <<>> ELSE FormatWithSeparator(ns, Separator)

\* a report line of record r: name and numCall, then total and average unless
\* the record has no data; scale is the factor from nanoseconds to the unit the
\* average is written in, commas the separators of the line; text is what the
\* text report writes in the time columns (the CSV writes plain numbers)
Row(r, scale, commas) ==
    [kind |-> "row", rec |-> r, name |-> name[r], calls |-> numCall[r],
     commas |-> commas,
     times |-> IF NoData(r) THEN <<>>
               ELSE <<TimeToStrNs(GetTotalSec(r)),
                      Quotient(TimeToStrNs(GetTotalSec(r)) * scale, numCall[r])>>,
     text |-> IF NoData(r) \/ commas # 0 THEN <<>>
              ELSE <<TimeText(TimeToStrNs(GetTotalSec(r))),
                     TimeText(Quotient(TimeToStrNs(GetTotalSec(r)), numCall[r]))>>]

Line(kind) == [kind |-> kind]

\* strlen(MeasureBackend::GetMeasureTitle()) of the backend the run is built with
GetMeasureTitle == bound.title

\* a value of type size_t: arithmetic is modulo 2^SizeBits
SizeT(n) == n % (2 ^ SizeBits)

\* std::string::max_size(): std::string(count, ch) throws std::length_error
\* for a count above it
StringMaxSize == 2 ^ (SizeBits - 2) - 1

\* (width - titleLen) / 2 without the - 1
PadLenNoMinusOne(titleLen) == SizeT(SizeT(Width - titleLen) \div 2)

\* (width - titleLen) / 2 - 1, in size_t
PadLen(titleLen) == SizeT(SizeT(Width - titleLen) \div 2 - 1)

\* cout << pad << " " << title << " " << pad << (titleLen % 2 ? "-" : "")
Banner(titleLen) ==
    [kind |-> "banner", left |-> PadLen(titleLen), title |-> titleLen,
     right |-> PadLen(titleLen) + (titleLen % 2)]

\* the characters of a banner line: dashes, space, title, space, dashes
LineWidth(l) == l.left + 1 + l.title + 1 + l.right

CanReport(t) ==
    /\ pc[t] = "run"
    /\ ~Unwinding(t)
    /\ report.n < MaxReports

\* MeasureDatabase::PrintReport: nothing is written for an empty database;
\* otherwise the banner, the column titles and a rule, then the loop; when the
\* pad length is beyond what a std::string holds, its constructor throws and
\* the exception leaves PrintReport with nothing written
PrintReport(t) ==
    /\ CanReport(t)
    /\ IF records = <<>>
       THEN /\ report' = [n |-> report.n + 1, kind |-> "text", rows |-> <<>>, done |-> TRUE]
            /\ UNCHANGED <<pc, local>>
       ELSE IF PadLen(GetMeasureTitle) > StringMaxSize
       THEN /\ report' = [n |-> report.n + 1, kind |-> "length_error", rows |-> <<>>,
                          done |-> FALSE]
            /\ UNCHANGED <<pc, local>>
       ELSE /\ report' = [n |-> report.n + 1, kind |-> "text", done |-> FALSE,
                          rows |-> <<Banner(GetMeasureTitle), Line("titles"), Line("rule")>>]
            /\ pc' = [pc EXCEPT ![t] = "print_loop"]
            /\ local' = [local EXCEPT ![t] =
                    [NoLocal EXCEPT !.idx = 1, !.end = Len(records)]]
    /\ UNCHANGED <<clock, recVars, dbVars, scopes, unwindTo,
                   opened, thrown, pairCount, pairSum, topCount, topSum,
                   returned, calls, snap, log>>

\* PrintReport: one line for the record at the loop's position
PrintReportRow(t) ==
    /\ pc[t] = "print_loop"
    /\ local[t].idx <= local[t].end
    /\ \E mr \in Element(t) :
            report' = [report EXCEPT !.rows = Append(@, Row(mr, 1, 0))]
    /\ local' = [local EXCEPT ![t].idx = @ + 1]
    /\ UNCHANGED <<clock, recVars, dbVars, pc, scopes, unwindTo,
                   opened, thrown, pairCount, pairSum, topCount, topSum,
                   returned, calls, snap, log>>

\* PrintReport: the closing rule; the call returns
PrintReportReturn(t) ==
    /\ pc[t] = "print_loop"
    /\ local[t].idx > local[t].end
    /\ report' = [report EXCEPT !.rows = Append(@, Line("rule")), !.done = TRUE]
    /\ pc' = [pc EXCEPT ![t] = "run"]
    /\ local' = [local EXCEPT ![t] = NoLocal]
    /\ UNCHANGED <<clock, recVars, dbVars, scopes, unwindTo,
                   opened, thrown, pairCount, pairSum, topCount, topSum,
                   returned, calls, snap, log>>

\* Database::GetMutex(): the mutex AddRecord locks
GetMutex == dbMutex

\* Database::GetRecords(): the record sequence
GetRecords == records

\* CsvReport: lock_guard lock(Database::GetMutex()); auto records =
\* Database::GetRecords(); the header line unless the copy is empty
CsvReport(t) ==
    /\ CanReport(t)
    /\ GetMutex = NoThread
    /\ dbMutex' = t
    /\ report' = [n |-> report.n + 1, kind |-> "csv", done |-> FALSE,
                  rows |-> IF GetRecords = <<>> THEN <<>> ELSE <<Line("header")>>]
    /\ pc' = [pc EXCEPT ![t] = "csv_loop"]
    /\ local' = [local EXCEPT ![t] =
            [NoLocal EXCEPT !.idx = 1, !.end = Len(GetRecords)]]
    /\ UNCHANGED <<clock, recVars, records, bound, dynamicRecords, dynMutex, owner,
                   scopes, unwindTo,
                   opened, thrown, pairCount, pairSum, topCount, topSum,
                   returned, calls, snap, log>>

\* CsvReport: one line for the record at the loop's position; the average is
\* written with six decimals (std::fixed)
CsvReportRow(t) ==
    /\ pc[t] = "csv_loop"
    /\ local[t].idx <= local[t].end
    /\ report' = [report EXCEPT !.rows =
            Append(@, Row(GetRecords[local[t].idx], 1000000, 3))]
    /\ local' = [local EXCEPT ![t].idx = @ + 1]
    /\ UNCHANGED <<clock, recVars, dbVars, pc, scopes, unwindTo,
                   opened, thrown, pairCount, pairSum, topCount, topSum,
                   returned, calls, snap, log>>

\* CsvReport returns: the lock_guard unlocks
CsvReportReturn(t) ==
    /\ pc[t] = "csv_loop"
    /\ local[t].idx > local[t].end
    /\ dbMutex' = NoThread
    /\ report' = [report EXCEPT !.done = TRUE]
    /\ pc' = [pc EXCEPT ![t] = "run"]
    /\ local' = [local EXCEPT ![t] = NoLocal]
    /\ UNCHANGED <<clock, recVars, records, bound, dynamicRecords, dynMutex, owner,
                   scopes, unwindTo,
                   opened, thrown, pairCount, pairSum, topCount, topSum,
                   returned, calls, snap, log>>

(* ----------------------- DynamicMeasureDatabase ----------------------- *)
\* a lookup that never finds the name
MapFindMiss(m, nm) == Absent

\* dynamicRecords.find(name): the mapped pointer, or Absent for end()
MapFind(m, nm) == m[nm]

\* Policy::GetDynamicRecord(name): DynamicDatabase::GetOrAddDynamicRecord(name)
GetOrAddDynamicRecord(t, pol, nm) ==
    /\ CanCall(t)
    /\ calls' = [calls EXCEPT ![t] = @ + 1]
    /\ pc' = [pc EXCEPT ![t] = "dyn_lock"]
    /\ local' = [local EXCEPT ![t] =
            [NoLocal EXCEPT !.pol = pol, !.arg = nm,
                            !.fresh = (dynamicRecords[pol][nm] = Absent)]]
    /\ UNCHANGED <<clock, recVars, dbVars, scopes, unwindTo,
                   opened, thrown, pairCount, pairSum, topCount, topSum,
                   returned, snap, log, report>>

\* GetOrAddDynamicRecord without its lock_guard
DynLockMissing(t) ==
    /\ pc[t] = "dyn_lock"
    /\ pc' = [pc EXCEPT ![t] = "dyn_find"]
    /\ UNCHANGED <<clock, recVars, dbVars, scopes, local, unwindTo, histVars>>

\* GetOrAddDynamicRecord: lock_guard lock(Instance()->mutex)
DynLock(t) ==
    /\ pc[t] = "dyn_lock"
    /\ dynMutex[local[t].pol] = NoThread
    /\ dynMutex' = [dynMutex EXCEPT ![local[t].pol] = t]
    /\ pc' = [pc EXCEPT ![t] = "dyn_find"]
    /\ UNCHANGED <<clock, recVars, records, dbMutex, bound, dynamicRecords, owner,
                   scopes, local, unwindTo, histVars>>

\* recordIter = dynamicRecords.find(name);
\* if (recordIter != dynamicRecords.end()) return recordIter->second.get();
DynFind(t) ==
    /\ pc[t] = "dyn_find"
    /\ LET found == MapFind(dynamicRecords[local[t].pol], local[t].arg) IN
        IF found # Absent
        THEN /\ local' = [local EXCEPT ![t].ret = found]
             /\ pc' = [pc EXCEPT ![t] = "dyn_unlock"]
        ELSE /\ pc' = [pc EXCEPT ![t] = "dyn_new"]
             /\ UNCHANGED local
    /\ UNCHANGED <<clock, recVars, dbVars, scopes, unwindTo, histVars>>

\* a GetOrAddDynamicRecord that takes a registered record of the name, where
\* the database has one, in place of constructing a record
DynNewFindsNamesake(t) ==
    /\ pc[t] = "dyn_new"
    /\ dynamicRecords' = [dynamicRecords EXCEPT ![local[t].pol][local[t].arg] =
            IF @ = Absent THEN Null ELSE @]
    /\ IF FindMeasureRecord(local[t].arg) # Null
       THEN /\ local' = [local EXCEPT ![t].ret = FindMeasureRecord(local[t].arg)]
            /\ pc' = [pc EXCEPT ![t] = "dyn_store"]
            /\ UNCHANGED <<name, policy, totalTime, numCall, owner, log>>
       ELSE /\ FreeIds # {}
            /\ TMeasureRecordCtor(NewId, local[t].arg, local[t].pol, "dynamic")
            /\ local' = [local EXCEPT ![t].ret = NewId, ![t].cont = "dyn_store"]
            /\ pc' = [pc EXCEPT ![t] = IF DefaultAutoRegister THEN "add_lock" ELSE "dyn_store"]
            /\ log' = [log EXCEPT !.made = Append(@, <<t, NewId, DefaultAutoRegister>>)]
    /\ UNCHANGED <<clock, depth, mutex, depths, records, dbMutex, bound, dynMutex,
                   scopes, unwindTo,
                   opened, thrown, pairCount, pairSum, topCount, topSum,
                   returned, calls, snap, report>>

\* dynamicRecords.emplace(name, nullptr); new MeasureRecord(name): the
\* constructor registers the record with the default autoRegister
DynNew(t) ==
    /\ pc[t] = "dyn_new"
    /\ FreeIds # {}
    /\ dynamicRecords' = [dynamicRecords EXCEPT ![local[t].pol][local[t].arg] =
            IF @ = Absent THEN Null ELSE @]
    /\ TMeasureRecordCtor(NewId, local[t].arg, local[t].pol, "dynamic")
    /\ local' = [local EXCEPT ![t].ret = NewId, ![t].cont = "dyn_store"]
    /\ pc' = [pc EXCEPT ![t] = IF DefaultAutoRegister THEN "add_lock" ELSE "dyn_store"]
    /\ log' = [log EXCEPT !.made = Append(@, <<t, NewId, DefaultAutoRegister>>)]
    /\ UNCHANGED <<clock, depth, mutex, depths, records, dbMutex, bound, dynMutex,
                   scopes, unwindTo,
                   opened, thrown, pairCount, pairSum, topCount, topSum,
                   returned, calls, snap, report>>

\* uniqueRecord = std::unique_ptr<MeasureRecord>(new MeasureRecord(name));
\* a record the pointer held before is destroyed
DynStore(t) ==
    /\ pc[t] = "dyn_store"
    /\ LET old == dynamicRecords[local[t].pol][local[t].arg] IN
        owner' = [owner EXCEPT ![old] = IF old \in RecIds THEN "destroyed" ELSE @]
    /\ dynamicRecords' = [dynamicRecords EXCEPT ![local[t].pol][local[t].arg] =
            local[t].ret]
    /\ pc' = [pc EXCEPT ![t] = "dyn_unlock"]
    /\ UNCHANGED <<clock, recVars, records, dbMutex, bound, dynMutex,
                   scopes, local, unwindTo, histVars>>

\* GetOrAddDynamicRecord returns: the lock_guard unlocks
DynUnlock(t) ==
    /\ pc[t] = "dyn_unlock"
    /\ dynMutex' = [dynMutex EXCEPT ![local[t].pol] = NoThread]
    /\ returned' = returned \cup
            {[t |-> t, pol |-> local[t].pol, name |-> local[t].arg,
              id |-> local[t].ret, fresh |-> local[t].fresh,
              seen |-> Cardinality({nm \in Names :
                          dynamicRecords[local[t].pol][nm] # Absent})]}
    /\ pc' = [pc EXCEPT ![t] = "run"]
    /\ local' = [local EXCEPT ![t] = NoLocal]
    /\ UNCHANGED <<clock, recVars, records, dbMutex, bound, dynamicRecords, owner,
                   scopes, unwindTo,
                   opened, thrown, pairCount, pairSum, topCount, topSum, calls, snap,
                   log, report>>

(* ----------------------- MEASURE_IS_ON defined 0 ------------------------ *)
\* an AddRecord whose body is compiled in although the switch is off
AddRecordOn(s, r) == Append(s, r)

\* MeasureDatabase::AddRecord with MEASURE_IS_ON 0: the lock_guard and the
\* push_back are inside #if, the body is empty
AddRecordOff(s, r) == s

\* FindMeasureRecord with MEASURE_IS_ON 0: the loop is inside #if, what is
\* left is return nullptr
FindMeasureRecordOff(nm) == Null

\* static Policy::MeasureRecord record(name, autoRegister) with the switch off:
\* the constructor is the same, the AddRecord it calls is the empty one
ConstructStaticOff(t, pol, nm, autoRegister) ==
    /\ CanCall(t)
    /\ TMeasureRecordCtor(NewId, nm, pol, "static")
    /\ calls' = [calls EXCEPT ![t] = @ + 1]
    /\ log' = [log EXCEPT !.made = Append(@, <<t, NewId, autoRegister>>)]
    /\ records' = IF Registers(pol, autoRegister) THEN AddRecordOff(records, NewId)
                  ELSE records
    /\ UNCHANGED <<clock, depth, mutex, depths, dbMutex, bound,
                   dynamicRecords, dynMutex, pc, scopes, local, unwindTo,
                   opened, thrown, pairCount, pairSum, topCount, topSum,
                   returned, snap, report>>

\* a thread calls Database::FindMeasureRecord(nm) with the switch off
FindMeasureRecordCallOff(t, nm) ==
    /\ pc[t] = "run"
    /\ ~Unwinding(t)
    /\ pc' = [pc EXCEPT ![t] = "find_ret"]
    /\ local' = [local EXCEPT ![t] =
            [NoLocal EXCEPT !.arg = nm, !.ret = FindMeasureRecordOff(nm)]]
    /\ UNCHANGED <<clock, recVars, dbVars, scopes, unwindTo, histVars>>

\* MeasureDatabase::ResetAll with MEASURE_IS_ON 0: the loop is inside #if
ResetAllOff(t) ==
    /\ pc[t] = "run"
    /\ ~Unwinding(t)
    /\ snap.n < MaxResets
    /\ snap' = [n |-> snap.n + 1, records |-> records,
                found |-> [nm \in Names |-> FindMeasureRecordOff(nm)],
                calls |-> numCall, total |-> totalTime, done |-> TRUE,
                depth |-> <<>>, tops |-> <<>>, sums |-> <<>>]
    /\ UNCHANGED <<clock, recVars, dbVars, pc, scopes, local, unwindTo,
                   opened, thrown, pairCount, pairSum, topCount, topSum,
                   returned, calls, log, report>>

\* MeasureDatabase::PrintReport (and PrintMeasure) with MEASURE_IS_ON 0:
\* nothing is written
PrintReportOff(t) ==
    /\ CanReport(t)
    /\ report' = [n |-> report.n + 1, kind |-> "text", rows |-> <<>>, done |-> TRUE]
    /\ UNCHANGED <<clock, recVars, dbVars, pc, scopes, local, unwindTo,
                   opened, thrown, pairCount, pairSum, topCount, topSum,
                   returned, calls, snap, log>>

\* a scope object of the build with the switch off: it has no members
IsEmptyScope(s) == s.start = Uninit

\* TMeasureScope(record_) with MEASURE_IS_ON 0: no initialisers, the body is {}
TMeasureScopeCtorOff(t, r) ==
    /\ CanConstruct(t, r)
    /\ IsPlain(policy[r])
    /\ scopes' = [scopes EXCEPT ![t] =
            Append(@, [rec |-> r, start |-> Uninit, born |-> Uninit])]
    /\ opened' = [opened EXCEPT ![t][r] = @ + 1]
    /\ UNCHANGED <<clock, recVars, dbVars, pc, local, unwindTo,
                   thrown, pairCount, pairSum, topCount, topSum, dynHist>>

\* MeasureScopeRSafe(record_) with MEASURE_IS_ON 0: the body is {}
MeasureScopeRSafeCtorOff(t, r) ==
    /\ CanConstruct(t, r)
    /\ IsRecursionSafe(policy[r])
    /\ scopes' = [scopes EXCEPT ![t] =
            Append(@, [rec |-> r, start |-> Uninit, born |-> Uninit])]
    /\ opened' = [opened EXCEPT ![t][r] = @ + 1]
    /\ UNCHANGED <<clock, recVars, dbVars, pc, local, unwindTo,
                   thrown, pairCount, pairSum, topCount, topSum, dynHist>>

\* with MEASURE_IS_ON 0 neither scope type declares a destructor: the object
\* just leaves the stack
ScopeDtorOff(t) ==
    /\ CanDestroy(t)
    /\ IsEmptyScope(Top(scopes[t]))
    /\ scopes' = [scopes EXCEPT ![t] = Front(@)]
    /\ UNCHANGED <<clock, recVars, dbVars, pc, local, unwindTo, histVars>>

\* Solution1: auto start = record.Now(); the record's own member functions
\* are not inside #if. The local start is kept on the thread's stack
ManualStart(t, r) == policy[r] = "Base" /\ TMeasureScopeCtor(t, r)

\* Solution1: record.StopMeasure(start)
ManualStop(t) ==
    /\ Len(scopes[t]) > 0
    /\ ~IsEmptyScope(Top(scopes[t]))
    /\ TMeasureScopeDtor(t)

(* --------------------------- specifications --------------------------- *)
InitThreads ==
    /\ clock = 0
    /\ pc = [t \in Threads |-> "run"]
    /\ scopes = [t \in Threads |-> <<>>]
    /\ local = [t \in Threads |-> NoLocal]
    /\ unwindTo = [t \in Threads |-> NoUnwind]
    /\ opened = [t \in Threads |-> [r \in RecIds |-> 0]]
    /\ thrown = [t \in Threads |-> NoThrow]
    /\ pairCount = [t \in Threads |-> [r \in RecIds |-> 0]]
    /\ pairSum = [r \in RecIds |-> 0]
    /\ topCount = [t \in Threads |-> [r \in RecIds |-> 0]]
    /\ topSum = [r \in RecIds |-> 0]
    /\ returned = {}
    /\ calls = [t \in Threads |-> 0]
    /\ snap = NoSnap
    /\ log = NoLog
    /\ report = NoReport

InitRecords(pol, nm) ==
    /\ policy = pol
    /\ name = [r \in RecIds |-> IF pol[r] = "None" THEN "" ELSE nm[r]]
    /\ totalTime = [r \in RecIds |-> 0]
    /\ numCall = [r \in RecIds |-> 0]
    /\ depth = [r \in RecIds |-> 0]
    /\ mutex = [r \in RecIds |-> NoThread]
    /\ depths = [t \in Threads |-> <<>>]
    /\ records = SelectSeq([r \in RecIds |-> r], LAMBDA r : pol[r] # "None")
    /\ dbMutex = NoThread
    /\ dynamicRecords = [p \in Policies |-> [n \in Names |-> Absent]]
    /\ dynMutex = [p \in Policies |-> NoThread]
    /\ owner = [r \in RecIds |-> IF pol[r] = "None" THEN "none" ELSE "static"]

SeqBound == [ticks |-> SeqTicks, depth |-> SeqDepth, scopes |-> SeqScopes,
             throws |-> SeqThrows, title |-> CppTitleLen]

\* the static records of a run: record 1 of policy p, record 2 of policy q
TwoRecords(p, q) ==
    [r \in RecIds |-> CASE r = 1 -> p [] r = 2 -> q [] OTHER -> "None"]

\* their names
TwoNames(a, b) ==
    [r \in RecIds |-> CASE r = 1 -> a [] r = 2 -> b [] OTHER -> ""]

SampleNames == TwoNames("RecursiveFunction_1", "RecursiveFunction_2")

\* one thread, plain scopes on a Base and a TSafe record (Solution1, Solution2)
Init == InitThreads /\ InitRecords(TwoRecords("Base", "TSafe"), SampleNames) /\ bound = SeqBound

Next ==
    \/ Tick
    \/ \E r \in RecIds : TMeasureScopeCtor(1, r)
    \/ TMeasureScopeDtor(1)
    \/ StopMeasureLock(1)
    \/ StopMeasureLoadTotal(1)
    \/ StopMeasureStoreTotal(1)
    \/ StopMeasureLoadCall(1)
    \/ StopMeasureStoreCall(1)
    \/ StopMeasureUnlock(1)
    \/ Throw(1)

Spec == Init /\ [][Next]_vars

\* one thread, recursion-aware scopes on an RSafe and a TRSafe record
\* (RecursiveFunction)
InitRec == InitThreads /\ InitRecords(TwoRecords("RSafe", "TRSafe"), SampleNames) /\ bound = SeqBound

NextRec ==
    \/ Tick
    \/ \E r \in RecIds : MeasureScopeRSafeCtor(1, r)
    \/ IncrementDepthTRSafe(1)
    \/ MeasureScopeRSafeNow(1)
    \/ MeasureScopeRSafeDtor(1)
    \/ DecrementDepthTRSafe(1)
    \/ StopMeasureLock(1)
    \/ StopMeasureLoadTotal(1)
    \/ StopMeasureStoreTotal(1)
    \/ StopMeasureLoadCall(1)
    \/ StopMeasureStoreCall(1)
    \/ StopMeasureUnlock(1)
    \/ Throw(1)

SpecRec == InitRec /\ [][NextRec]_vars

\* NumThreads threads, each running ConcPairs plain scopes, one after another,
\* on the same TSafe record
TSafeBound == [ticks |-> 1, depth |-> 1, scopes |-> ConcPairs, throws |-> 0, title |-> CppTitleLen]

InitTSafe == InitThreads /\ InitRecords(TwoRecords("TSafe", "None"), SampleNames) /\ bound = TSafeBound

NextTSafe ==
    \/ Tick
    \/ \E t \in Threads :
        \/ \E r \in RecIds : TMeasureScopeCtor(t, r)
        \/ TMeasureScopeDtor(t)
        \/ StopMeasureLock(t)
        \/ StopMeasureLoadTotal(t)
        \/ StopMeasureStoreTotal(t)
        \/ StopMeasureLoadCall(t)
        \/ StopMeasureStoreCall(t)
        \/ StopMeasureUnlock(t)

SpecTSafe == InitTSafe /\ [][NextTSafe]_vars

\* two threads, each nesting recursion-aware scopes on two TRSafe records;
\* the clock stands still
TRSafeBound == [ticks |-> 0, depth |-> ConcDepth, scopes |-> ConcPairs + 1,
                throws |-> 0, title |-> CppTitleLen]

InitTRSafe ==
    InitThreads /\ InitRecords(TwoRecords("TRSafe", "TRSafe"), SampleNames) /\ bound = TRSafeBound

NextTRSafe ==
    \/ \E t \in Pair :
        \/ \E r \in RecIds : MeasureScopeRSafeCtor(t, r)
        \/ IncrementDepthTRSafe(t)
        \/ MeasureScopeRSafeNow(t)
        \/ MeasureScopeRSafeDtor(t)
        \/ DecrementDepthTRSafe(t)
        \/ StopMeasureLock(t)
        \/ StopMeasureLoadTotal(t)
        \/ StopMeasureStoreTotal(t)
        \/ StopMeasureLoadCall(t)
        \/ StopMeasureStoreCall(t)
        \/ StopMeasureUnlock(t)

SpecTRSafe == InitTRSafe /\ [][NextTRSafe]_vars

\* an RSafe record used by the first thread only and a TRSafe record used by
\* two threads, with nested recursion-aware scopes
DepthBound == [ticks |-> 0, depth |-> ConcDepth, scopes |-> ConcPairs + 1,
               throws |-> 0, title |-> CppTitleLen]

InitDepth ==
    InitThreads /\ InitRecords(TwoRecords("RSafe", "TRSafe"), SampleNames) /\ bound = DepthBound

NextDepth ==
    \/ \E t \in Pair :
        \/ \E r \in RecIds : (policy[r] = "RSafe" => t = 1) /\ MeasureScopeRSafeCtor(t, r)
        \/ IncrementDepthTRSafe(t)
        \/ MeasureScopeRSafeNow(t)
        \/ MeasureScopeRSafeDtor(t)
        \/ DecrementDepthTRSafe(t)
        \/ StopMeasureLock(t)
        \/ StopMeasureLoadTotal(t)
        \/ StopMeasureStoreTotal(t)
        \/ StopMeasureLoadCall(t)
        \/ StopMeasureStoreCall(t)
        \/ StopMeasureUnlock(t)

SpecDepth == InitDepth /\ [][NextDepth]_vars

\* two threads ask the dynamic databases of two policies for records by name;
\* a static Base record named "X" is registered already
DynBound == [ticks |-> 0, depth |-> 0, scopes |-> 0, throws |-> 0, title |-> CppTitleLen]

InitDyn ==
    InitThreads /\ InitRecords(TwoRecords("Base", "None"), TwoNames("X", "")) /\ bound = DynBound

NextDyn ==
    \E t \in Pair :
        \/ \E pol \in DynPolicies, nm \in Names : GetOrAddDynamicRecord(t, pol, nm)
        \/ DynLock(t)
        \/ DynFind(t)
        \/ DynNew(t)
        \/ AddRecordLock(t)
        \/ AddRecordPush(t)
        \/ DynStore(t)
        \/ DynUnlock(t)

SpecDyn == InitDyn /\ [][NextDyn]_vars

\* one thread constructs static records, measures them with plain scopes and
\* resets the database
ResetBound == [ticks |-> 1, depth |-> 1, scopes |-> 2, throws |-> 0, title |-> CppTitleLen]

InitReset ==
    InitThreads /\ InitRecords(TwoRecords("None", "None"), TwoNames("", "")) /\ bound = ResetBound

NextReset ==
    \/ Tick
    \/ \E pol \in DynPolicies, nm \in Names, autoRegister \in BOOLEAN :
            ConstructStatic(1, pol, nm, autoRegister)
    \/ AddRecordLock(1)
    \/ AddRecordPush(1)
    \/ \E r \in RecIds : TMeasureScopeCtor(1, r)
    \/ TMeasureScopeDtor(1)
    \/ StopMeasureLock(1)
    \/ StopMeasureLoadTotal(1)
    \/ StopMeasureStoreTotal(1)
    \/ StopMeasureLoadCall(1)
    \/ StopMeasureStoreCall(1)
    \/ StopMeasureUnlock(1)
    \/ \E nm \in Names : FindMeasureRecordCall(1, nm)
    \/ FindMeasureRecordReturn(1)
    \/ ResetAll(1)
    \/ ResetAllZeroCall(1)
    \/ ResetAllZeroTotal(1)
    \/ ResetAllReturn(1)

SpecReset == InitReset /\ [][NextReset]_vars

\* two threads construct static records of the four policies, named as in
\* RecursiveFunction, each thread those of two policies; when both are done,
\* the first writes the report
PolicyName(pol) ==
    CASE pol = "Base" -> "RecursiveFunction_1"
      [] pol = "RSafe" -> "RecursiveFunction_2"
      [] pol = "TSafe" -> "RecursiveFunction_3"
      [] pol = "TRSafe" -> "RecursiveFunction_4"

\* the policies of the records a thread declares: the first thread the Base
\* and RSafe ones, the second the TSafe and TRSafe ones
Declares(t) == IF t = 1 THEN {"Base", "RSafe"} ELSE {"TSafe", "TRSafe"}

\* the threads have constructed what they can and are idle: the end of the program
AllConstructed ==
    \A t \in Pair : pc[t] = "run" /\ (calls[t] = MaxCalls \/ FreeIds = {})

InitRegister ==
    InitThreads /\ InitRecords(TwoRecords("None", "None"), TwoNames("", "")) /\ bound = DynBound

NextRegister ==
    \/ \E t \in Pair :
        \/ \E pol \in Declares(t), autoRegister \in BOOLEAN :
                ConstructStatic(t, pol, PolicyName(pol), autoRegister)
        \/ AddRecordLock(t)
        \/ AddRecordPush(t)
    \/ AllConstructed /\ PrintReport(1)
    \/ PrintReportRow(1)
    \/ PrintReportReturn(1)

SpecRegister == InitRegister /\ [][NextRegister]_vars

\* two threads share the database, which holds a TSafe record: each may
\* construct further static records, reset the database and write the report,
\* all at the same time
SharedBound == [ticks |-> 0, depth |-> 0, scopes |-> 0, throws |-> 0, title |-> CppTitleLen]

InitShared ==
    InitThreads /\ InitRecords(TwoRecords("TSafe", "None"), TwoNames("X", "")) /\ bound = SharedBound

NextShared ==
    \E t \in Pair :
        \/ ConstructStatic(t, "TSafe", "Y", DefaultAutoRegister)
        \/ AddRecordLock(t)
        \/ AddRecordPush(t)
        \/ ResetAll(t)
        \/ ResetAllZeroCall(t)
        \/ ResetAllZeroTotal(t)
        \/ ResetAllReturn(t)
        \/ PrintReport(t)
        \/ PrintReportRow(t)
        \/ PrintReportReturn(t)

SpecShared == InitShared /\ [][NextShared]_vars

\* two threads measure one registered TSafe record with plain scopes while
\* either may reset the database
MeasuredBound == [ticks |-> 1, depth |-> 1, scopes |-> ConcPairs, throws |-> 0, title |-> CppTitleLen]

InitMeasured ==
    InitThreads /\ InitRecords(TwoRecords("TSafe", "None"), TwoNames("X", "")) /\ bound = MeasuredBound

NextMeasured ==
    \/ Tick
    \/ \E t \in Pair :
        \/ \E r \in RecIds : TMeasureScopeCtor(t, r)
        \/ TMeasureScopeDtor(t)
        \/ StopMeasureLock(t)
        \/ StopMeasureLoadTotal(t)
        \/ StopMeasureStoreTotal(t)
        \/ StopMeasureLoadCall(t)
        \/ StopMeasureStoreCall(t)
        \/ StopMeasureUnlock(t)
        \/ ResetAll(t)
        \/ ResetAllZeroCall(t)
        \/ ResetAllZeroTotal(t)
        \/ ResetAllReturn(t)

SpecMeasured == InitMeasured /\ [][NextMeasured]_vars

\* one thread measures a Base and a TSafe record with plain scopes, resets the
\* database and writes the text or the CSV report
ReportBound == [ticks |-> 2, depth |-> 1, scopes |-> 2, throws |-> 0, title |-> CppTitleLen]

InitReport ==
    InitThreads /\ InitRecords(TwoRecords("Base", "TSafe"), TwoNames("X", "Y")) /\ bound = ReportBound

NextReport ==
    \/ Tick
    \/ \E r \in RecIds : TMeasureScopeCtor(1, r)
    \/ TMeasureScopeDtor(1)
    \/ StopMeasureLock(1)
    \/ StopMeasureLoadTotal(1)
    \/ StopMeasureStoreTotal(1)
    \/ StopMeasureLoadCall(1)
    \/ StopMeasureStoreCall(1)
    \/ StopMeasureUnlock(1)
    \/ ResetAll(1)
    \/ ResetAllZeroCall(1)
    \/ ResetAllZeroTotal(1)
    \/ ResetAllReturn(1)
    \/ PrintReport(1)
    \/ PrintReportRow(1)
    \/ PrintReportReturn(1)
    \/ CsvReport(1)
    \/ CsvReportRow(1)
    \/ CsvReportReturn(1)

SpecReport == InitReport /\ [][NextReport]_vars

\* the build with MEASURE_IS_ON 0: one thread constructs static Base and RSafe
\* records, opens and closes scopes of both types on them, measures a
\* Base record by hand as Solution1 does, looks names up, resets and reports
OffBound == [ticks |-> 1, depth |-> 2, scopes |-> 2, throws |-> 0, title |-> CppTitleLen]

InitOff ==
    InitThreads /\ InitRecords(TwoRecords("None", "None"), TwoNames("", "")) /\ bound = OffBound

NextOff ==
    \/ Tick
    \/ \E pol \in Declares(1), autoRegister \in BOOLEAN :
            ConstructStaticOff(1, pol, "X", autoRegister)
    \/ \E nm \in Names : FindMeasureRecordCallOff(1, nm)
    \/ FindMeasureRecordReturn(1)
    \/ ResetAllOff(1)
    \/ PrintReportOff(1)
    \/ \E r \in RecIds : TMeasureScopeCtorOff(1, r)
    \/ \E r \in RecIds : MeasureScopeRSafeCtorOff(1, r)
    \/ ScopeDtorOff(1)
    \/ \E r \in RecIds : ManualStart(1, r)
    \/ ManualStop(1)
    \/ StopMeasureLoadTotal(1)
    \/ StopMeasureStoreTotal(1)
    \/ StopMeasureLoadCall(1)
    \/ StopMeasureStoreCall(1)

SpecOff == InitOff /\ [][NextOff]_vars

\* two threads use every lock of the library: each makes one call, constructing
\* a static TSafe record or asking the TRSafe dynamic database for a record,
\* and opens and closes a scope on one of the TSafe and TRSafe records there
\* are; the clock stands still
LocksBound == [ticks |-> 0, depth |-> 1, scopes |-> 1, throws |-> 0, title |-> CppTitleLen]

InitLocks ==
    InitThreads /\ InitRecords(TwoRecords("TSafe", "None"), TwoNames("X", "")) /\ bound = LocksBound

\* the steps that carry on an operation thread t has started
LockStep(t) ==
    \/ DynLock(t)
    \/ DynFind(t)
    \/ DynNew(t)
    \/ AddRecordLock(t)
    \/ AddRecordPush(t)
    \/ DynStore(t)
    \/ DynUnlock(t)
    \/ IncrementDepthTRSafe(t)
    \/ MeasureScopeRSafeNow(t)
    \/ DecrementDepthTRSafe(t)
    \/ StopMeasureLock(t)
    \/ StopMeasureLoadTotal(t)
    \/ StopMeasureStoreTotal(t)
    \/ StopMeasureLoadCall(t)
    \/ StopMeasureStoreCall(t)
    \/ StopMeasureUnlock(t)

NextLocks ==
    \E t \in Pair :
        \/ calls[t] = 0 /\ ConstructStatic(t, "TSafe", "Y", DefaultAutoRegister)
        \/ calls[t] = 0 /\ GetOrAddDynamicRecord(t, "TRSafe", "X")
        \/ \E r \in RecIds : TMeasureScopeCtor(t, r)
        \/ TMeasureScopeDtor(t)
        \/ \E r \in RecIds : MeasureScopeRSafeCtor(t, r)
        \/ MeasureScopeRSafeDtor(t)
        \/ LockStep(t)

SpecLocks == InitLocks /\ [][NextLocks]_vars

\* the same run under a scheduler that lets every thread run again and again:
\* a thread that can carry on with its operation eventually does
SpecLocksFair == SpecLocks /\ \A t \in Pair : WF_vars(LockStep(t))

\* two threads each run one plain scope on the same Base record
BaseBound == [ticks |-> 2, depth |-> 1, scopes |-> 1, throws |-> 0, title |-> CppTitleLen]

InitBase ==
    InitThreads /\ InitRecords(TwoRecords("Base", "None"), SampleNames) /\ bound = BaseBound

NextBase ==
    \/ Tick
    \/ \E t \in Pair :
        \/ \E r \in RecIds : TMeasureScopeCtor(t, r)
        \/ TMeasureScopeDtor(t)
        \/ StopMeasureLoadTotal(t)
        \/ StopMeasureStoreTotal(t)
        \/ StopMeasureLoadCall(t)
        \/ StopMeasureStoreCall(t)

SpecBase == InitBase /\ [][NextBase]_vars

\* two threads share the database, which holds a record named "X": each may
\* construct further static records and look names up, at the same time
InitFind ==
    InitThreads /\ InitRecords(TwoRecords("Base", "None"), TwoNames("X", "")) /\ bound = SharedBound

NextFind ==
    \E t \in Pair :
        \/ \E nm \in Names : ConstructStatic(t, "Base", nm, DefaultAutoRegister)
        \/ AddRecordLock(t)
        \/ AddRecordPush(t)
        \/ \E nm \in Names : FindMeasureRecordBegin(t, nm)
        \/ FindMeasureRecordStep(t)
        \/ FindMeasureRecordReturn(t)

SpecFind == InitFind /\ [][NextFind]_vars

\* one thread constructs static Base records named "X", with and without
\* auto-registration, measures them with plain scopes, looks the name up,
\* resets the database and writes the report
AutoBound == [ticks |-> 1, depth |-> 1, scopes |-> 2, throws |-> 0, title |-> CppTitleLen]

InitAuto ==
    InitThreads /\ InitRecords(TwoRecords("None", "None"), TwoNames("", "")) /\ bound = AutoBound

NextAuto ==
    \/ Tick
    \/ \E autoRegister \in BOOLEAN : ConstructStatic(1, "Base", "X", autoRegister)
    \/ AddRecordLock(1)
    \/ AddRecordPush(1)
    \/ \E r \in RecIds : TMeasureScopeCtor(1, r)
    \/ TMeasureScopeDtor(1)
    \/ StopMeasureLoadTotal(1)
    \/ StopMeasureStoreTotal(1)
    \/ StopMeasureLoadCall(1)
    \/ StopMeasureStoreCall(1)
    \/ FindMeasureRecordCall(1, "X")
    \/ FindMeasureRecordReturn(1)
    \/ ResetAll(1)
    \/ ResetAllZeroCall(1)
    \/ ResetAllZeroTotal(1)
    \/ ResetAllReturn(1)
    \/ PrintReport(1)
    \/ PrintReportRow(1)
    \/ PrintReportReturn(1)

SpecAuto == InitAuto /\ [][NextAuto]_vars

\* one thread nests recursion-aware scopes on a registered RSafe and a
\* registered TRSafe record and calls ResetAll, also from inside the scopes
RecResetBound == [ticks |-> 2, depth |-> 2, scopes |-> 2, throws |-> 0, title |-> CppTitleLen]

InitRecReset ==
    InitThreads /\ InitRecords(TwoRecords("RSafe", "TRSafe"), SampleNames) /\ bound = RecResetBound

NextRecReset ==
    \/ Tick
    \/ \E r \in RecIds : MeasureScopeRSafeCtor(1, r)
    \/ IncrementDepthTRSafe(1)
    \/ MeasureScopeRSafeNow(1)
    \/ MeasureScopeRSafeDtor(1)
    \/ DecrementDepthTRSafe(1)
    \/ StopMeasureLock(1)
    \/ StopMeasureLoadTotal(1)
    \/ StopMeasureStoreTotal(1)
    \/ StopMeasureLoadCall(1)
    \/ StopMeasureStoreCall(1)
    \/ StopMeasureUnlock(1)
    \/ ResetAll(1)
    \/ ResetAllZeroCall(1)
    \/ ResetAllZeroTotal(1)
    \/ ResetAllReturn(1)

SpecRecReset == InitRecReset /\ [][NextRecReset]_vars

(* ---------------------------- properties ------------------------------ *)
\* the sum over the threads of a per-thread, per-record count
RECURSIVE SumThreads(_, _, _)
SumThreads(f, r, n) == IF n = 0 THEN 0 ELSE f[n][r] + SumThreads(f, r, n - 1)

\* the thread is inside TMeasureRecord::StopMeasure
InStopMeasure(t) == pc[t] \in {"stop_load", "stop_store", "call_load", "call_store",
                               "stop_unlock"}

\* C1: after N successive start/stop pairs on one record from a single thread,
\* numCall is N and totalTime is the sum of the N (stop tick - start tick)
\* differences.
C1_PairsAccumulate ==
    pc[1] = "run" =>
        \A r \in RecIds :
            /\ numCall[r] = pairCount[1][r]
            /\ totalTime[r] = pairSum[r]

C1_Witness ==
    /\ pc[1] = "run"
    /\ scopes[1] = <<>>
    /\ pairCount[1][1] = SeqScopes
    /\ numCall[1] = SeqScopes
    /\ totalTime[1] >= 2

\* C2: a TSafe record used by T threads, M start/stop pairs each: StopMeasure's
\* read-modify-write runs under the record's mutex, so whenever the mutex is
\* free numCall is the number of completed pairs and totalTime the sum of
\* their differences; when every thread has finished, numCall is T*M.
C2_NoLostUpdate ==
    /\ \A t \in Threads : InStopMeasure(t) => mutex[local[t].rec] = t
    /\ \A r \in RecIds : mutex[r] = NoThread =>
        /\ numCall[r] = SumThreads(pairCount, r, NumThreads)
        /\ totalTime[r] = pairSum[r]
    /\ (\A t \in Threads : pairCount[t][1] = ConcPairs) =>
            numCall[1] = NumThreads * ConcPairs

C2_Witness ==
    /\ \A t \in Threads : pc[t] = "run" /\ pairCount[t][1] = ConcPairs
    /\ numCall[1] = NumThreads * ConcPairs
    /\ totalTime[1] = NumThreads

\* C3: with one recursion-safe scope per frame of a self-recursive call, each
\* top-level invocation raises numCall by exactly 1, however many frames nest,
\* and adds to totalTime exactly the tick difference between the outermost
\* scope's construction and its destruction.
C3_OutermostOnly ==
    pc[1] = "run" =>
        \A r \in RecIds :
            /\ numCall[r] = topCount[1][r]
            /\ totalTime[r] = topSum[r]

C3_Witness ==
    /\ pc[1] = "run"
    /\ scopes[1] = <<>>
    /\ policy[1] = "RSafe"
    /\ pairCount[1][1] = 2
    /\ topCount[1][1] = 1
    /\ numCall[1] = 1
    /\ totalTime[1] = 2

\* the thread is inside IncrementDepth or DecrementDepth of record r
InDepthCall(t, r) ==
    \/ pc[t] = "inc_body" /\ Top(scopes[t]).rec = r
    \/ pc[t] = "dec_body" /\ local[t].rec = r

\* C4: a TRSafe record keeps one depth per (thread, record): the depth thread t
\* sees for record r changes only in t's own IncrementDepth or DecrementDepth
\* on r, never by another thread's scopes nor by t's scopes on another record.
\* So whenever the record's mutex is free numCall is the number of top-level
\* invocations completed by all threads, and it is T*M when each of the T
\* threads has completed M of them (T = 2 threads here).
C4_DepthPerThreadAndRecord ==
    /\ [][\A t \in Pair : \A r \in RecIds :
            DepthOf(t, r)' # DepthOf(t, r) => InDepthCall(t, r)]_vars
    /\ [](\A r \in RecIds :
            /\ mutex[r] = NoThread => numCall[r] = SumThreads(topCount, r, NumThreads)
            /\ (\A t \in Pair : topCount[t][r] = ConcPairs /\ Live(t, r) = {})
                    => numCall[r] = Cardinality(Pair) * ConcPairs)

C4_Witness ==
    /\ \A t \in Pair :
            pc[t] = "run" /\ topCount[t][1] = ConcPairs /\ pairCount[t][1] = ConcPairs + 1
    /\ numCall[1] = Cardinality(Pair) * ConcPairs

\* C5: a plain scope stops its record's timer exactly once on every exit path:
\* between destructors, normal or unwinding, numCall of a record is the number
\* of scopes on it that were constructed and are no longer alive.
C5_StopOncePerScope ==
    pc[1] = "run" =>
        \A r \in RecIds : numCall[r] = opened[1][r] - Cardinality(Live(1, r))

C5_Witness ==
    /\ pc[1] = "run"
    /\ ~Unwinding(1)
    /\ thrown[1].n = 1
    /\ thrown[1].recs = <<1, 1>>
    /\ scopes[1] = <<>>
    /\ opened[1][1] = 2
    /\ numCall[1] = 2

\* the scopes of record r that the last throw of thread t unwinds
Unwound(t, r) ==
    {i \in (unwindTo[t] + 1)..Len(thrown[t].recs) : thrown[t].recs[i] = r}

\* the scopes of record r that stay alive below the handler
Kept(t, r) == {i \in 1..unwindTo[t] : thrown[t].recs[i] = r}

\* C6: when an exception has unwound through k >= 1 nested recursion-aware
\* scopes of a record, and none of its scopes is left, the record's depth is 0
\* again and numCall has risen by exactly 1 since the throw.
C6_UnwindStopsOnce ==
    [][\A r \in RecIds :
        (/\ Unwinding(1)
         /\ unwindTo'[1] = NoUnwind
         /\ IsRecursionSafe(policy[r])
         /\ Unwound(1, r) # {}
         /\ Kept(1, r) = {})
        => /\ DepthOf(1, r)' = 0
           /\ numCall'[r] = thrown[1].calls[r] + 1]_vars

C6_Witness ==
    /\ pc[1] = "run"
    /\ ~Unwinding(1)
    /\ thrown[1].recs = <<2, 2>>
    /\ policy[2] = "TRSafe"
    /\ thrown[1].calls[2] = 0
    /\ scopes[1] = <<>>
    /\ DepthOf(1, 2) = 0
    /\ opened[1][2] = 3
    /\ numCall[2] = 2

\* the records a Dynamic Measure Database of policy pol created for the name nm
Created(pol, nm) ==
    {r \in RecIds : owner[r] \in {"dynamic", "destroyed"} /\ policy[r] = pol /\ name[r] = nm}

\* thread t is inside GetOrAddDynamicRecord, past the lock_guard
InGetOrAdd(t) ==
    \/ pc[t] \in {"dyn_find", "dyn_new", "dyn_store", "dyn_unlock"}
    \/ pc[t] \in {"add_lock", "add_push"} /\ local[t].cont = "dyn_store"

\* the positions of the database's sequence that hold a dynamic record of
\* policy pol named nm
Entries(pol, nm) ==
    {i \in 1..Len(records) : /\ owner[records[i]] \in {"dynamic", "destroyed"}
                             /\ policy[records[i]] = pol
                             /\ name[records[i]] = nm}

\* C7: within one Dynamic Measure Database, in any sequence of calls of
\* GetOrAddDynamicRecord, two calls return the same record exactly when their
\* names are equal, every call returns a record, and the record returned for a
\* name stays the one the database maps that name to, whatever other names are
\* inserted later.
C7_IdempotentPerName ==
    /\ \A a \in returned : \A b \in returned :
            a.pol = b.pol => (a.name = b.name <=> a.id = b.id)
    /\ \A a \in returned :
            /\ a.id \in RecIds
            /\ name[a.id] = a.name
            /\ dynamicRecords[a.pol][a.name] = a.id

\* "X" was created, "Y" was inserted after it, and a later call for "X" got
\* the first record again
C7_Witness ==
    \E a \in returned : \E b \in returned : \E c \in returned :
        /\ a.pol = b.pol /\ b.pol = c.pol
        /\ a.name = "X" /\ b.name = "X" /\ c.name = "Y"
        /\ a.fresh /\ a.seen = 1
        /\ c.fresh /\ c.seen = 2
        /\ ~b.fresh /\ b.seen = 2
        /\ a.id = b.id
        /\ c.id # a.id

\* C8: when the threads call GetOrAddDynamicRecord concurrently with the same
\* new name, one record is created for it and every call returns that record;
\* lookup, creation and insertion run with the Dynamic Database's lock held.
C8_OneCreation ==
    /\ \A pol \in DynPolicies : \A nm \in Names : Cardinality(Created(pol, nm)) <= 1
    /\ \A a \in returned : Created(a.pol, a.name) = {a.id}
    /\ \A t \in Pair : InGetOrAdd(t) => dynMutex[local[t].pol] = t

\* both threads called with a name that was absent at the time of their call,
\* and both got the one record
C8_Witness ==
    \E a \in returned : \E b \in returned :
        /\ a.t # b.t
        /\ a.pol = b.pol /\ a.name = b.name
        /\ a.fresh /\ b.fresh
        /\ a.id = b.id
        /\ Created(a.pol, a.name) = {a.id}

\* C9: a record a Dynamic Measure Database holds is exactly once in the plain
\* Database's sequence: the creating call registers it, later calls with the
\* name add no entry, so the sequence has one entry per name of that Dynamic
\* Database and FindMeasureRecord finds the name.
C9_RegisteredOnce ==
    \A pol \in DynPolicies : \A nm \in Names :
        dynamicRecords[pol][nm] \in RecIds =>
            /\ Registered(dynamicRecords[pol][nm]) = 1
            /\ Cardinality(Entries(pol, nm)) = 1
            /\ FindMeasureRecord(nm) # Null
            /\ name[FindMeasureRecord(nm)] = nm

\* a record was created by one thread's call, returned again to the other
\* thread's later call, and is registered once next to the other records
C9_Witness ==
    \E a \in returned : \E b \in returned :
        /\ a.t # b.t
        /\ a.pol = b.pol /\ a.name = b.name
        /\ a.fresh /\ ~b.fresh
        /\ a.id = b.id
        /\ Registered(a.id) = 1
        /\ Len(records) >= 3
        /\ \A t \in Pair : pc[t] = "run"

\* C10: when ResetAll returns, the record sequence is the one it found, every
\* record in it has numCall = 0 and totalTime = 0, and FindMeasureRecord gives,
\* for every name it found a record for before, the same record.
C10_ResetKeepsRecords ==
    [][pc[1] # "run" /\ pc'[1] = "run" /\ snap'.done /\ ~snap.done =>
        /\ records' = snap.records
        /\ \A i \in 1..Len(snap.records) :
                numCall'[snap.records[i]] = 0 /\ totalTime'[snap.records[i]] = 0
        /\ \A nm \in Names :
                snap.found[nm] # Null => FindMeasureRecord(nm)' = snap.found[nm]]_vars

\* ResetAll has returned on a database of two records that had been measured
C10_Witness ==
    /\ snap.done
    /\ pc[1] = "run"
    /\ Len(snap.records) = 2
    /\ snap.calls[snap.records[1]] >= 1
    /\ snap.total[snap.records[1]] >= 1
    /\ snap.found["X"] # Null
    /\ records = snap.records
    /\ \A i \in 1..Len(records) : numCall[records[i]] = 0 /\ totalTime[records[i]] = 0
    /\ FindMeasureRecord("X") = snap.found["X"]

\* the positions of the database's sequence whose record is named nm
Hits(nm) == {i \in 1..Len(records) : name[records[i]] = nm}

\* C11: FindMeasureRecord(name) returns the earliest-registered record whose
\* name equals the argument, returns null when no registered record has the
\* name (also on an empty database), and changes no record and no database state.
C11_FirstMatchOrNull ==
    /\ [](pc[1] = "find_ret" =>
            IF Hits(local[1].arg) = {}
            THEN local[1].ret = Null
            ELSE \E i \in Hits(local[1].arg) :
                    /\ local[1].ret = records[i]
                    /\ \A j \in Hits(local[1].arg) : i <= j)
    /\ [][pc'[1] = "find_ret" \/ pc[1] = "find_ret" =>
            UNCHANGED <<recVars, dbVars, scopes, histVars>>]_vars

\* a lookup of a name two registered records have returned the first of them
C11_Witness ==
    /\ pc[1] = "find_ret"
    /\ Len(records) = 2
    /\ Hits(local[1].arg) = {1, 2}
    /\ local[1].ret = records[1]
    /\ records[1] # records[2]

\* the thread that constructed record r, and where in the order of
\* constructions it did
MadeAt(r) == CHOOSE i \in 1..Len(log.made) : log.made[i][2] = r
Maker(r) == log.made[MadeAt(r)][1]

\* the records of the lines a report has written for records
RowRecords == [i \in 1..Len(SelectSeq(report.rows, LAMBDA l : l.kind = "row")) |->
                    SelectSeq(report.rows, LAMBDA l : l.kind = "row")[i].rec]

\* C12: the database's record sequence only grows at its end; two records one
\* thread constructed are in it in the order of their construction; under
\* concurrent construction it is in the order in which the AddRecord calls got
\* the lock; and the report has one row per record, in the order of the sequence.
C12_RegistrationOrder ==
    /\ [][records' = records \/ \E r \in RecIds : records' = Append(records, r)]_vars
    /\ [](\A i \in 1..Len(records) : \A j \in 1..Len(records) :
            i < j /\ Maker(records[i]) = Maker(records[j])
                => MadeAt(records[i]) < MadeAt(records[j]))
    /\ [](/\ Len(records) <= Len(log.locked)
          /\ Len(log.locked) <= Len(records) + 1
          /\ records = SubSeq(log.locked, 1, Len(records)))
    /\ [](report.done /\ records # <<>> => RowRecords = records)

\* the threads' registrations interleaved: the record constructed second was
\* registered first, and the finished report follows the sequence
C12_Witness ==
    /\ report.done
    /\ Len(records) = 3
    /\ MadeAt(records[1]) > MadeAt(records[2])
    /\ Maker(records[1]) # Maker(records[2])
    /\ Maker(records[2]) = Maker(records[3])
    /\ RowRecords = records

\* the thread whose scopes the depth thread t reads for record r counts: an
\* RSafe record has one depth, and the first thread is the one that uses it
User(t, r) == IF policy[r] = "RSafe" THEN 1 ELSE t

\* C13: for a recursion-aware record used through recursion-aware scopes with
\* stack discipline (RSafe on one thread, TRSafe on several), depth is never
\* negative, between constructor and destructor calls it is the number of the
\* thread's live scopes on the record, and numCall changes only in a
\* StopMeasure of a thread whose depth on the record is back at 0, the scope
\* being destroyed its only one on the record.
C13_DepthCountsLiveScopes ==
    /\ [](\A t \in Pair : \A r \in RecIds :
            IsRecursionSafe(policy[r]) =>
                /\ DepthOf(t, r) >= 0
                /\ pc[User(t, r)] = "run"
                        => DepthOf(t, r) = Cardinality(Live(User(t, r), r)))
    /\ [][\A r \in RecIds : numCall'[r] # numCall[r] =>
            \E t \in Pair : /\ pc[t] = "call_store"
                            /\ local[t].rec = r
                            /\ DepthOf(t, r) = 0
                            /\ Live(t, r) = {Len(scopes[t])}]_vars

\* both threads are inside nested scopes on the TRSafe record, the first also
\* inside one on the RSafe record, after invocations of both have completed
C13_Witness ==
    /\ \A t \in Pair : pc[t] = "run"
    /\ DepthOf(1, 2) = 1 /\ DepthOf(2, 2) = 2
    /\ DepthOf(1, 1) = 1
    /\ Cardinality(Live(2, 2)) = 2
    /\ numCall[2] = 1
    /\ numCall[1] = 1

\* the records whose construction with autoRegister = true has finished
AutoRegistered ==
    {r \in RecIds : /\ \E i \in 1..Len(log.made) : log.made[i][2] = r /\ log.made[i][3]
                    /\ \A t \in Pair : pc[t] \in {"add_lock", "add_push"} => local[t].ret # r}

\* the records in the sequence s
InDatabase(s) == {s[i] : i \in 1..Len(s)}

\* C14 as stated: each policy has a database of its own, so the databases of
\* two different policies of the backend hold no record in common.
C14_DatabasePerPolicy ==
    \A p \in Policies : \A q \in Policies :
        p # q => InDatabase(RecordDatabase(p)) \cap InDatabase(RecordDatabase(q)) = {}

\* C14, amended: there is one Measure Database per clock backend, shared by the
\* four policies: a record constructed with auto-registration, of whatever
\* policy, is once in that database's sequence, and the sequence holds the
\* auto-registered records of all policies and no others.
C14_DatabasePerBackend ==
    /\ \A r \in AutoRegistered : Registered(r) = 1
    /\ \A r \in InDatabase(records) :
            /\ \E i \in 1..Len(log.made) : log.made[i][2] = r /\ log.made[i][3]
            /\ r \in InDatabase(RecordDatabase(policy[r]))
    /\ \A r \in RecIds : policy[r] # "None" /\ r \notin AutoRegistered =>
            Registered(r) = 0 \/ \E t \in Pair : pc[t] \in {"add_lock", "add_push"} /\ local[t].ret = r

\* the one sequence holds records of the four policies, and a record
\* constructed without auto-registration is not in it
C14_Witness ==
    /\ \A t \in Pair : pc[t] = "run"
    /\ {policy[r] : r \in InDatabase(records)} = {"Base", "RSafe", "TRSafe"}
    /\ \E r \in RecIds : policy[r] = "TSafe" /\ Registered(r) = 0

\* C15: records of every safety policy of the backend register into the
\* backend's one database, so FindMeasureRecord on it returns, for the name of
\* any auto-registered record of any policy, a record of that name.
C15_FindAnyPolicy ==
    \A r \in AutoRegistered :
        /\ FindMeasureRecord(name[r]) # Null
        /\ name[FindMeasureRecord(name[r])] = name[r]
        /\ policy[FindMeasureRecord(name[r])] = policy[r]

\* RecursiveFunction's four records, one of each policy, are all found
C15_Witness ==
    /\ \A t \in Pair : pc[t] = "run"
    /\ Cardinality(AutoRegistered) = 4
    /\ \A p \in Policies : FindMeasureRecord(PolicyName(p)) \in AutoRegistered
    /\ {policy[FindMeasureRecord(PolicyName(p))] : p \in Policies} = Policies

\* C16: ResetAll and PrintReport run with the database's lock held, so no
\* thread is inside AddRecord's append while another is in the loop of
\* ResetAll or PrintReport over the record sequence.
C16_IterationExcludesAppend ==
    \A t \in Pair : \A u \in Pair :
        t # u => ~(pc[t] = "add_push" /\ Iterating(u))

RECURSIVE BagSize(_, _)
BagSize(f, D) ==
    IF D = {} THEN 0
    ELSE LET d == CHOOSE x \in D : TRUE IN f[d] + BagSize(f, D \ {d})

RECURSIVE BagTotal(_, _)
BagTotal(f, D) ==
    IF D = {} THEN 0
    ELSE LET d == CHOOSE x \in D : TRUE IN d * f[d] + BagTotal(f, D \ {d})

\* the selections of completed StopMeasure calls on record r: how many of the
\* calls with each elapsed difference are taken
Selections(r) ==
    {f \in [DOMAIN log.elapsed[r] -> 0..(2 * NumThreads)] :
        \A d \in DOMAIN log.elapsed[r] : f[d] <= log.elapsed[r][d]}

\* no thread is inside an operation and no scope is alive
Quiescent == \A t \in Pair : pc[t] = "run" /\ scopes[t] = <<>>

\* C17: totalTime and numCall of a thread-safe record are never updated
\* partially: once StopMeasure calls of several threads and a ResetAll of
\* another have all finished, some set S of the StopMeasure calls has
\* numCall = |S| and totalTime = the sum of the elapsed differences of S.
C17_CountersMatchSomeCalls ==
    Quiescent =>
        \A r \in RecIds : IsThreadSafe(policy[r]) =>
            \E f \in Selections(r) :
                /\ numCall[r] = BagSize(f, DOMAIN f)
                /\ totalTime[r] = BagTotal(f, DOMAIN f)

\* the lines the report has written for records
Rows == SelectSeq(report.rows, LAMBDA l : l.kind = "row")

\* a line that has the two time columns shows calls and a positive total
TimesOnlyWithData(l) == l.times # <<>> => l.calls > 0 /\ l.times[1] > 0

\* C18: in the text report a row has only Name and Calls whenever the record
\* has zero calls or a non-positive total time; a record with numCall > 0 and
\* totalTime exactly 0 is printed without total and average.
C18_TextRowNeedsPositiveTotal ==
    report.kind = "text" => \A i \in 1..Len(Rows) : TimesOnlyWithData(Rows[i])

\* C19: the text and the CSV report never divide by zero: the average is
\* computed for records with numCall > 0 only, and a record with numCall = 0
\* gets a row without the two time fields, in every state of the database,
\* also right after ResetAll.
C19_NoDivisionByZero ==
    \A i \in 1..Len(Rows) :
        /\ Rows[i].calls = 0 => Rows[i].times = <<>>
        /\ Rows[i].times # <<>> =>
                /\ Rows[i].calls > 0
                /\ Rows[i].times[2] # DivByZero
                /\ Rows[i].times[2] =
                        (Rows[i].times[1] * (IF report.kind = "csv" THEN 1000000 ELSE 1))
                            \div Rows[i].calls

\* a report written after ResetAll: the record that had calls and time before
\* the reset has a row without time fields, the other, measured after the
\* reset, has total and average
C19_Witness ==
    /\ report.done /\ snap.done
    /\ Len(Rows) = 2
    /\ snap.calls[1] > 0 /\ snap.total[1] > 0
    /\ Rows[1].calls = 0 /\ Rows[1].times = <<>>
    /\ Rows[2].calls = 1 /\ Rows[2].times # <<>> /\ Rows[2].times[1] = 1

\* C20: the CSV report of a non-empty database is the header row followed by
\* one row per registered record, in registration order; every row has four
\* comma-separated fields, and for records with zero calls or a non-positive
\* total the last two are empty.
C20_CsvRows ==
    report.kind = "csv" /\ report.done /\ records # <<>> =>
        /\ report.rows[1] = Line("header")
        /\ Len(report.rows) = Len(records) + 1
        /\ \A i \in 1..Len(records) :
                /\ report.rows[i + 1].kind = "row"
                /\ report.rows[i + 1].rec = records[i]
                /\ report.rows[i + 1].commas = 3
                /\ TimesOnlyWithData(report.rows[i + 1])

\* the step constructs or destroys a scope object of the build with the switch off
EmptyScopeStep ==
    \/ Len(scopes'[1]) > Len(scopes[1]) /\ IsEmptyScope(Top(scopes'[1]))
    \/ Len(scopes'[1]) < Len(scopes[1]) /\ IsEmptyScope(Top(scopes[1]))

\* C21: with the compile-time switch off the instrumentation is a no-op:
\* constructing a record appends nothing (the database's sequence stays empty,
\* its mutex is never taken), FindMeasureRecord returns null for every name,
\* ResetAll and PrintReport change nothing and write nothing, and constructing
\* or destroying a scope of either type captures no clock value and leaves
\* totalTime, numCall and depth of every record as they were.
C21_SwitchOffNoOp ==
    /\ [](records = <<>> /\ dbMutex = NoThread)
    /\ [](pc[1] = "find_ret" => local[1].ret = Null)
    /\ [](report.rows = <<>>)
    /\ [][snap'.n # snap.n \/ report'.n # report.n =>
            UNCHANGED <<clock, recVars, dbVars, pc, scopes, local>>]_vars
    /\ [][EmptyScopeStep =>
            /\ UNCHANGED <<clock, recVars, dbVars, pc, local>>
            /\ \A i \in 1..Len(scopes'[1]) :
                    i > Len(scopes[1]) => scopes'[1][i].start = Uninit]_vars

\* an auto-registered record named "X" was measured by hand, ResetAll and
\* PrintReport have run, a scope on the record is alive, and the record's
\* counters are still there while a lookup of "X" has returned null
C21_Witness ==
    /\ pc[1] = "find_ret" /\ local[1].arg = "X" /\ local[1].ret = Null
    /\ \E i \in 1..Len(log.made) : log.made[i][3] /\ name[log.made[i][2]] = "X"
    /\ snap.done /\ snap.calls[1] = 1 /\ snap.total[1] = 1
    /\ report.done
    /\ numCall[1] = 1 /\ totalTime[1] = 1
    /\ Len(scopes[1]) = 1 /\ IsEmptyScope(scopes[1][1])
    /\ \E r \in RecIds : IsRecursionSafe(policy[r]) /\ opened[1][r] = 1 /\ DepthOf(1, r) = 0
    /\ records = <<>>

\* the library mutexes thread t holds
Holds(t) ==
    {<<"record", r>> : r \in {q \in RecIds : mutex[q] = t}}
        \cup (IF dbMutex = t THEN {<<"database", 0>>} ELSE {})
        \cup {<<"dynamic", p>> : p \in {q \in Policies : dynMutex[q] = t}}

\* the mutex thread t is about to lock, if it is at a lock_guard
Wants(t) ==
    CASE pc[t] = "stop_lock" -> {<<"record", local[t].rec>>}
      [] pc[t] = "add_lock" -> {<<"database", 0>>}
      [] pc[t] = "dyn_lock" -> {<<"dynamic", local[t].pol>>}
      [] OTHER -> {}

\* C22: no thread locks a library mutex it already holds, and no library mutex
\* (a record's, the database's, a dynamic database's) is held while user code
\* runs, inside or outside of scopes; a TRSafe scope's destructor has released
\* the record's mutex after DecrementDepth when StopMeasure locks it again.
C22_NoLockAcrossUserCode ==
    \A t \in Pair :
        /\ Wants(t) \cap Holds(t) = {}
        /\ pc[t] \in {"run", "ctor_now"} => Holds(t) = {}
        /\ pc[t] = "stop_lock" => Holds(t) = {}

\* the first thread's TRSafe destructor is between DecrementDepth and
\* StopMeasure while the second runs the body of a scope on the same record
C22_Witness ==
    /\ pc[1] = "stop_lock"
    /\ policy[local[1].rec] = "TRSafe"
    /\ pc[2] = "run"
    /\ Len(scopes[2]) = 1
    /\ scopes[2][1].rec = local[1].rec
    /\ Holds(1) = {} /\ Holds(2) = {}

\* both threads have completed their start/stop pair on the first record
BothStopped ==
    \A t \in Pair : pc[t] = "run" /\ scopes[t] = <<>> /\ pairCount[t][1] = 1

\* C23: a Base record gives no protection against concurrent use: its
\* StopMeasure takes no mutex, so when two threads have each completed one
\* start/stop pair on it the read-modify-write steps may have interleaved,
\* and all that is left is that numCall is 1 or 2 and totalTime is at most the
\* sum of the two elapsed differences; nothing reports the loss.
C23_BaseUnprotected ==
    /\ \A t \in Pair : InStopMeasure(t) => mutex[local[t].rec] = NoThread
    /\ BothStopped =>
            /\ numCall[1] \in {1, 2}
            /\ totalTime[1] >= 0
            /\ totalTime[1] <= pairSum[1]

\* a lost update: both pairs took one tick, numCall is 1 and totalTime is 1
C23_Witness ==
    /\ BothStopped
    /\ policy[1] = "Base"
    /\ log.elapsed[1] = MapPut(<<>>, 1, 2)
    /\ pairSum[1] = 2
    /\ numCall[1] = 1
    /\ totalTime[1] = 1

\* thread t is inside the loop of ResetAll
InResetAll(t) == pc[t] \in {"reset_loop", "reset_total"}

\* C24: with a clock that never goes back, over every sequence of start/stop
\* and reset operations of a thread, the step of StopMeasure that writes
\* numCall raises it by exactly 1, the step that writes totalTime leaves it at
\* least what it was, and a step that lowers numCall or totalTime of a record
\* is a step of ResetAll.
C24_CountersMonotone ==
    [][/\ clock' >= clock
       /\ \A r \in RecIds :
            /\ (pc[1] = "call_store" /\ pc'[1] # "call_store" /\ local[1].rec = r)
                    => numCall'[r] = numCall[r] + 1
            /\ (pc[1] = "stop_store" /\ pc'[1] # "stop_store" /\ local[1].rec = r)
                    => totalTime'[r] >= totalTime[r]
            /\ (numCall'[r] < numCall[r] \/ totalTime'[r] < totalTime[r]) => InResetAll(1)
            /\ ~InResetAll(1) => numCall'[r] >= numCall[r] /\ totalTime'[r] >= totalTime[r]]_vars

\* a record was measured, reset to zero and measured again
C24_Witness ==
    /\ pc[1] = "run"
    /\ snap.done
    /\ snap.calls[1] = 1 /\ snap.total[1] = 1
    /\ pairCount[1][1] = 2
    /\ numCall[1] = 1 /\ totalTime[1] = 1

\* the first of thread t's live scopes on the record of its i-th scope
Outermost(t, i) ==
    \A j \in 1..(i - 1) : scopes[t][j].rec # scopes[t][i].rec

\* C25: IncrementDepth adds 1 to the depth and returns true (the scope goes on
\* to read the clock) exactly when the new depth is 1; DecrementDepth
\* subtracts 1 and returns true (the scope goes on to StopMeasure) exactly
\* when the new depth is 0; otherwise construction and destruction change the
\* depth only: totalTime and numCall change only inside a StopMeasure entered
\* at depth 0, and only a record's outermost scope holds a start tick.
C25_DepthTransitions ==
    /\ [][\A r \in RecIds : IsRecursionSafe(policy[r]) =>
            /\ DepthOf(1, r)' # DepthOf(1, r) =>
                \/ /\ DepthOf(1, r)' = DepthOf(1, r) + 1
                   /\ Top(scopes'[1]).rec = r
                   /\ pc'[1] = (IF DepthOf(1, r)' = 1 THEN "ctor_now" ELSE "run")
                \/ /\ DepthOf(1, r)' = DepthOf(1, r) - 1
                   /\ Top(scopes[1]).rec = r
                   /\ IF DepthOf(1, r)' = 0
                      THEN pc'[1] \in {"stop_load", "stop_lock"} /\ scopes' = scopes
                      ELSE pc'[1] = "run" /\ scopes'[1] = Front(scopes[1])
            /\ (totalTime'[r] # totalTime[r] \/ numCall'[r] # numCall[r]) =>
                    InStopMeasure(1) /\ local[1].rec = r /\ DepthOf(1, r) = 0]_vars
    /\ [](\A i \in 1..Len(scopes[1]) :
            /\ scopes[1][i].start # Uninit => Outermost(1, i)
            /\ pc[1] = "ctor_now" /\ i = Len(scopes[1]) => Outermost(1, i))

\* after one completed invocation, two scopes nest on the RSafe record: the
\* outer one has read the clock, the inner one has not
C25_Witness ==
    /\ pc[1] = "run"
    /\ policy[1] = "RSafe"
    /\ DepthOf(1, 1) = 2
    /\ Len(scopes[1]) = 2
    /\ scopes[1][1].rec = 1 /\ scopes[1][1].start # Uninit
    /\ scopes[1][2].rec = 1 /\ scopes[1][2].start = Uninit
    /\ numCall[1] = 1

\* C26: a record without recursion safety (Base or TSafe) measured by a plain
\* scope in each nested frame commits once per frame: whenever no scope on it
\* is alive, numCall is the number of frames entered (D per invocation of
\* depth D, not 1) and totalTime is the sum of all frames' elapsed ticks,
\* which is at least the sum of the outermost frames' elapsed ticks.
C26_PlainScopeCountsEveryFrame ==
    pc[1] = "run" =>
        \A r \in RecIds : (IsPlain(policy[r]) /\ Live(1, r) = {}) =>
            /\ numCall[r] = opened[1][r]
            /\ numCall[r] >= topCount[1][r]
            /\ totalTime[r] = pairSum[r]
            /\ totalTime[r] >= topSum[r]

\* one invocation of depth 2 that took 2 ticks, its inner frame 1 tick:
\* numCall is 2 and totalTime is 3
C26_Witness ==
    /\ pc[1] = "run"
    /\ scopes[1] = <<>>
    /\ policy[1] = "Base"
    /\ opened[1][1] = 2
    /\ topCount[1][1] = 1
    /\ topSum[1] = 2
    /\ numCall[1] = 2
    /\ totalTime[1] = 3

\* C27: FindMeasureRecord scans the record sequence without the database's
\* lock: a thread inside the scan never holds the database's mutex and its
\* steps do not wait for it, so the scan runs while another thread is inside
\* AddRecord's critical section appending to the sequence.
C27_FindTakesNoLock ==
    /\ [](\A t \in Pair : Scanning(t) \/ pc[t] = "find_ret" => dbMutex # t)
    /\ [][\A t \in Pair :
            Scanning(t) /\ (local'[t].idx # local[t].idx \/ pc'[t] # pc[t])
                => dbMutex' = dbMutex]_vars
    /\ [](\A t \in Pair : Scanning(t) => ENABLED FindMeasureRecordStep(t))

\* the first thread is in the middle of the scan while the second holds the
\* database's mutex and is about to append
C27_Witness ==
    /\ Scanning(1)
    /\ local[1].idx = 2 /\ local[1].end = 2
    /\ pc[2] = "add_push"
    /\ dbMutex = 2

\* the records constructed with autoRegister = false
Unregistered ==
    {r \in RecIds : \E i \in 1..Len(log.made) : log.made[i][2] = r /\ ~log.made[i][3]}

\* C28: constructing a record sets totalTime and numCall to 0 and appends the
\* record to the database exactly when autoRegister is true; a record
\* constructed with autoRegister = false leaves the sequence as it was, is
\* never the result of FindMeasureRecord, has no row in a report, and keeps
\* its counters while ResetAll runs.
C28_AutoRegisterOnly ==
    /\ [][Len(log.made') > Len(log.made) =>
            LET made == log.made'[Len(log.made')] IN
            /\ totalTime'[made[2]] = 0 /\ numCall'[made[2]] = 0
            /\ records' = records
            /\ pc'[1] = (IF made[3] THEN "add_lock" ELSE "run")]_vars
    /\ [](\A r \in AutoRegistered : Registered(r) = 1)
    /\ [](\A r \in Unregistered :
            /\ Registered(r) = 0
            /\ pc[1] = "find_ret" => local[1].ret # r
            /\ \A i \in 1..Len(RowRecords) : RowRecords[i] # r)
    /\ [][\A r \in Unregistered :
            InResetAll(1) => numCall'[r] = numCall[r] /\ totalTime'[r] = totalTime[r]]_vars

\* two records named "X" were measured; ResetAll has zeroed the registered one
\* and left the other its counters, the report has one row, and the lookup of
\* "X" has returned the registered one
C28_Witness ==
    \E u \in Unregistered : \E g \in AutoRegistered :
        /\ snap.done /\ report.done
        /\ snap.calls[u] = 1 /\ numCall[u] = 1 /\ totalTime[u] = 1
        /\ snap.calls[g] = 1 /\ numCall[g] = 0 /\ totalTime[g] = 0
        /\ RowRecords = <<g>>
        /\ pc[1] = "find_ret" /\ local[1].ret = g

\* the kinds of the mutexes in a set
Kinds(hs) == {h[1] : h \in hs}

\* C29: the library cannot deadlock. Locks nest in one order only, a dynamic
\* database's, then the database's: a thread about to lock a record's or a
\* dynamic database's mutex holds no mutex, a thread about to lock the
\* database's holds at most a dynamic database's, and a thread holding a
\* record's mutex holds nothing else. With every thread scheduled again and
\* again, every operation a thread has started completes.
C29_NoDeadlock ==
    /\ [](\A t \in Pair :
            /\ Kinds(Wants(t)) \cap {"record", "dynamic"} # {} => Holds(t) = {}
            /\ Kinds(Wants(t)) = {"database"} => Kinds(Holds(t)) \subseteq {"dynamic"}
            /\ "record" \in Kinds(Holds(t)) => Cardinality(Holds(t)) = 1 /\ Wants(t) = {}
            /\ "database" \in Kinds(Holds(t)) => Wants(t) = {})
    /\ \A t \in Pair : (pc[t] # "run") ~> (pc[t] = "run")

\* the second thread waits for the database's mutex with the dynamic
\* database's in its hand, while the first holds the database's in AddRecord
C29_Witness ==
    /\ pc[2] = "add_lock"
    /\ Holds(2) = {<<"dynamic", "TRSafe">>}
    /\ pc[1] = "add_push"
    /\ Holds(1) = {<<"database", 0>>}

\* C30: ResetAll leaves the depth of every recursion-aware record as it is:
\* no step of ResetAll changes a depth or a scope, so a ResetAll that ran at
\* depth d > 0 returns at depth d and the remaining destructors bring the depth
\* back to 0; after the reset numCall counts the outermost scopes that ended
\* since and totalTime sums their full elapsed ticks, so the outermost scope
\* that was alive during the reset commits once, with its whole elapsed time
\* from the start tick it took before the reset.
C30_ResetKeepsDepth ==
    /\ [][snap'.n # snap.n \/ InResetAll(1) => UNCHANGED <<depth, depths, scopes>>]_vars
    /\ [](\A r \in RecIds : IsRecursionSafe(policy[r]) =>
            /\ InResetAll(1) => DepthOf(1, r) = snap.depth[r]
            /\ pc[1] = "run" => DepthOf(1, r) = Cardinality(Live(1, r))
            /\ pc[1] = "run" /\ snap.done =>
                    /\ numCall[r] = topCount[1][r] - snap.tops[r]
                    /\ totalTime[r] = topSum[r] - snap.sums[r])

\* ResetAll ran inside two nested scopes on the RSafe record, one tick after
\* the outer one began; both have ended since: depth is 0, numCall is 1 and
\* totalTime is the outer scope's 2 ticks
C30_Witness ==
    /\ pc[1] = "run"
    /\ scopes[1] = <<>>
    /\ snap.done
    /\ policy[1] = "RSafe"
    /\ snap.depth[1] = 2
    /\ snap.tops[1] = 0
    /\ opened[1][1] = 2
    /\ DepthOf(1, 1) = 0
    /\ topSum[1] = 2
    /\ numCall[1] = 1
    /\ totalTime[1] = 2

(* ---------- recursion-aware scopes of two threads, with a clock ---------- *)
\* thread 1 nests scopes on an RSafe record, both threads on a TRSafe record,
\* leaving them by return or by an exception, while the clock advances
StartBound == [ticks |-> 1, depth |-> 2, scopes |-> 2, throws |-> 1, title |-> CppTitleLen]

InitStart ==
    InitThreads /\ InitRecords(TwoRecords("RSafe", "TRSafe"), SampleNames) /\ bound = StartBound

NextStart ==
    \/ Tick
    \/ \E t \in Pair :
        \/ \E r \in RecIds : (policy[r] = "RSafe" => t = 1) /\ MeasureScopeRSafeCtor(t, r)
        \/ IncrementDepthTRSafe(t)
        \/ MeasureScopeRSafeNow(t)
        \/ MeasureScopeRSafeDtor(t)
        \/ DecrementDepthTRSafe(t)
        \/ StopMeasureLock(t)
        \/ StopMeasureLoadTotal(t)
        \/ StopMeasureStoreTotal(t)
        \/ StopMeasureLoadCall(t)
        \/ StopMeasureStoreCall(t)
        \/ StopMeasureUnlock(t)
        \/ Throw(t)

SpecStart == InitStart /\ [][NextStart]_vars

\* thread t's destructor has seen DecrementDepth return true and is in, or
\* about to enter, StopMeasure(start)
Committing(t) == pc[t] = "stop_lock" \/ InStopMeasure(t)

\* C31: a recursion-aware scope never passes an unset start to StopMeasure.
\* With scopes destroyed in reverse order of construction (an RSafe record on
\* one thread, a TRSafe record on two threads in any interleaving), the scope
\* whose destructor saw DecrementDepth return true is the thread's outermost
\* scope on the record, the one whose constructor saw IncrementDepth return
\* true and read the clock: the start handed to StopMeasure is set and is the
\* tick of that scope's construction.
C31_CommitsCapturedStart ==
    \A t \in Pair : Committing(t) /\ IsRecursionSafe(policy[local[t].rec]) =>
        LET s == Top(scopes[t]) IN
        /\ s.rec = local[t].rec
        /\ Outermost(t, Len(scopes[t]))
        /\ DepthOf(t, s.rec) = 0
        /\ s.start # Uninit
        /\ local[t].start = s.start
        /\ s.start = s.born

\* thread 2 nested two scopes on the TRSafe record at tick 0 and, after its
\* inner scope ended silently, commits the outer one at tick 1 with start 0,
\* while thread 1 is inside a scope on the same record that began at tick 1
C31_Witness ==
    /\ pc[2] = "stop_store"
    /\ policy[local[2].rec] = "TRSafe"
    /\ pairCount[2][local[2].rec] = 1
    /\ local[2].start = 0
    /\ local[2].now = 1
    /\ pc[1] = "run"
    /\ Len(scopes[1]) = 1
    /\ scopes[1][1].rec = local[2].rec
    /\ scopes[1][1].start = 1

\* the position of the earliest-registered record named nm
FirstHit(nm) == CHOOSE i \in Hits(nm) : \A j \in Hits(nm) : i <= j

\* C32: a name is no unique key of the plain Database. The Dynamic Databases
\* of two policies are independent: records returned through different
\* policies are different objects, also for one name; a dynamic record is
\* never the static record of its name; each returned record is once in the
\* one Database sequence under the name it was asked for; and
\* FindMeasureRecord for a name gives the earliest-registered entry of that
\* name only, here the static record for "X" however many namesakes follow.
C32_NamesNotUnique ==
    /\ \A a \in returned : \A b \in returned : a.pol # b.pol => a.id # b.id
    /\ \A a \in returned :
            /\ owner[a.id] = "dynamic"
            /\ policy[a.id] = a.pol
            /\ name[a.id] = a.name
            /\ Registered(a.id) = 1
    /\ \A nm \in Names :
            /\ Cardinality(Hits(nm)) >= Cardinality({a.pol : a \in {b \in returned : b.name = nm}})
            /\ Hits(nm) # {} => FindMeasureRecord(nm) = records[FirstHit(nm)]
    /\ owner[FindMeasureRecord("X")] = "static"

\* "X" was asked for through Base and through TSafe: two calls, two records,
\* and with the static record the sequence has three entries named "X", of
\* which FindMeasureRecord gives the first, the static one
C32_Witness ==
    /\ \A t \in Pair : pc[t] = "run"
    /\ \E a \in returned : \E b \in returned :
            /\ a.pol = "Base" /\ b.pol = "TSafe"
            /\ a.name = "X" /\ b.name = "X"
            /\ a.id # b.id
            /\ FindMeasureRecord("X") \notin {a.id, b.id}
    /\ Cardinality(Hits("X")) = 3
    /\ records[1] = FindMeasureRecord("X")
    /\ owner[records[1]] = "static"

(* -------------------- the text report's title banner ------------------- *)
\* one thread registers a static record and prints the report, before and after
\* the registration, in a build whose backend title has any length up to
\* MaxTitleLen
BannerBound == [ticks |-> 0, depth |-> 0, scopes |-> 0, throws |-> 0, title |-> CppTitleLen]

InitBanner ==
    /\ InitThreads
    /\ InitRecords(TwoRecords("None", "None"), TwoNames("", ""))
    /\ \E len \in 0..MaxTitleLen : bound = [BannerBound EXCEPT !.title = len]

NextBanner ==
    \/ calls[1] = 0 /\ ConstructStatic(1, "Base", "X", DefaultAutoRegister)
    \/ AddRecordLock(1)
    \/ AddRecordPush(1)
    \/ PrintReport(1)
    \/ PrintReportRow(1)
    \/ PrintReportReturn(1)

SpecBanner == InitBanner /\ [][NextBanner]_vars

\* C33: for a non-empty Database and a backend title of 0 to 84 characters
\* the report's first line is the banner, exactly 86 characters wide: the
\* title between two spaces and two runs of dashes of which the right one is
\* as long as the left or one longer, the left being (86 - titleLen)/2 - 1
\* with no wrap. Only a longer title makes the size_t pad length wrap, and
\* then no banner is written. For an empty Database PrintReport writes nothing.
C33_BannerWidth ==
    /\ [](report.rows # <<>> =>
            LET b == report.rows[1] IN
            /\ GetMeasureTitle <= 84
            /\ b.kind = "banner"
            /\ b.title = GetMeasureTitle
            /\ b.left = (86 - GetMeasureTitle) \div 2 - 1
            /\ b.left >= 0
            /\ b.right - b.left \in {0, 1}
            /\ LineWidth(b) = 86)
    /\ [](report.kind = "length_error" => GetMeasureTitle > 84 /\ report.rows = <<>>)
    /\ [](GetMeasureTitle <= 84 => PadLen(GetMeasureTitle) = (86 - GetMeasureTitle) \div 2 - 1)
    /\ [][report'.n # report.n =>
            /\ records = <<>> => report'.rows = <<>> /\ report'.kind = "text" /\ pc' = pc
            /\ records # <<>> /\ GetMeasureTitle <= 84 =>
                    Len(report'.rows) = 3 /\ pc'[1] = "print_loop"]_vars

\* the longest title that fits, 84 characters: the finished report's banner has
\* no dashes at all and is 86 characters wide
C33_Witness ==
    /\ report.done
    /\ Len(records) = 1
    /\ GetMeasureTitle = 84
    /\ Len(report.rows) = 5
    /\ report.rows[1].kind = "banner"
    /\ report.rows[1].left = 0 /\ report.rows[1].right = 0
    /\ LineWidth(report.rows[1]) = 86

(* --------------------- the text report's time columns ------------------ *)
\* the totals the formatting runs print: all small ones, and around every
\* power of ten
FormatNums ==
    (0..MaxSmallNum) \cup {10 ^ k - 1 : k \in 3..MaxDigits} \cup {10 ^ k : k \in 3..MaxDigits}
        \cup {12345678}

\* one thread prints the report of a database holding one Base record that has
\* accumulated some total over one or two calls
FormatBound == [ticks |-> 0, depth |-> 0, scopes |-> 0, throws |-> 0, title |-> CppTitleLen]

InitFormat ==
    /\ InitThreads
    /\ bound = FormatBound
    /\ policy = TwoRecords("Base", "None")
    /\ name = TwoNames("X", "")
    /\ \E total \in FormatNums : totalTime = [r \in RecIds |-> IF r = 1 THEN total ELSE 0]
    /\ \E n \in 1..2 : numCall = [r \in RecIds |-> IF r = 1 THEN n ELSE 0]
    /\ depth = [r \in RecIds |-> 0]
    /\ mutex = [r \in RecIds |-> NoThread]
    /\ depths = [t \in Threads |-> <<>>]
    /\ records = <<1>>
    /\ dbMutex = NoThread
    /\ dynamicRecords = [p \in Policies |-> [n \in Names |-> Absent]]
    /\ dynMutex = [p \in Policies |-> NoThread]
    /\ owner = [r \in RecIds |-> IF r = 1 THEN "static" ELSE "none"]

NextFormat ==
    \/ PrintReport(1)
    \/ PrintReportRow(1)
    \/ PrintReportReturn(1)

SpecFormat == InitFormat /\ [][NextFormat]_vars

\* a text without its separators
Unseparated(s) == SelectSeq(s, LAMBDA c : c # Separator)

\* the number a sequence of digit characters is the decimal representation of
DigitValue(c) == CHOOSE d \in 0..9 : DigitChars[d + 1] = c

RECURSIVE ToNumber(_)
ToNumber(s) == IF s = <<>> THEN 0 ELSE ToNumber(Front(s)) * 10 + DigitValue(Top(s))

\* txt is num in decimal digits with a separator between every two groups of
\* three digits counted from the right
WellSeparated(txt, num) ==
    /\ txt # <<>>
    /\ txt[1] # Separator
    /\ txt[Len(txt)] # Separator
    /\ \A i \in 1..Len(txt) : txt[i] = Separator <=> (Len(txt) - i + 1) % 4 = 0
    /\ num < 1000 => Unseparated(txt) = txt
    /\ \A i \in 1..Len(Unseparated(txt)) :
            \E d \in 0..9 : Unseparated(txt)[i] = DigitChars[d + 1]
    /\ Len(txt) > 1 => txt[1] # "0"
    /\ ToNumber(Unseparated(txt)) = num

\* C34: FormatWithSeparator(num) is the decimal representation of num with
\* one separator between every two groups of three digits counted from the
\* right: it never starts or ends with a separator, has none for a number
\* below 1000, and without its separators it is the decimal representation of
\* num; 12345678 gives 12'345'678. Checked on the time columns of every row
\* the text report writes.
C34_ThousandsSeparators ==
    /\ \A i \in 1..Len(Rows) : Rows[i].times # <<>> =>
            /\ Len(Rows[i].text) = 2
            /\ WellSeparated(Rows[i].text[1], Rows[i].times[1])
            /\ WellSeparated(Rows[i].text[2], Rows[i].times[2])
    /\ \A i \in 1..Len(Rows) : Rows[i].times # <<>> /\ Rows[i].times[1] = 12345678 =>
            Rows[i].text[1] = <<"1", "2", "'", "3", "4", "5", "'", "6", "7", "8">>

\* the report of a record with a total of 12345678 ns over two calls: the
\* total is written as 12'345'678 and the average as 6'172'839
C34_Witness ==
    /\ report.done
    /\ Len(Rows) = 1
    /\ Rows[1].calls = 2
    /\ Rows[1].times = <<12345678, 6172839>>
    /\ Rows[1].text[1] = <<"1", "2", "'", "3", "4", "5", "'", "6", "7", "8">>
    /\ Rows[1].text[2] = <<"6", "'", "1", "7", "2", "'", "8", "3", "9">>

====
